---- MODULE Spec2Model ----
(***************************************************************************)
(* A model of the browser client of the AC-cal control-system calculator:  *)
(* the fetch wrappers (controlSystemUtils.js, services/api.js), the input  *)
(* forms and their text parsing, and the result views.                     *)
(*                                                                         *)
(* Text is a sequence of one-character strings.  A JavaScript value is a   *)
(* tagged record: a number is a decimal mantissa and a count of fraction   *)
(* digits, kept normalised, so that 1.50 and 1.5 are the same value.       *)
(***************************************************************************)
EXTENDS Integers, Sequences, FiniteSets, TLC

(***************************************************************************)
(* JavaScript values                                                       *)
(***************************************************************************)
Null == [t |-> "null"]
Undefined == [t |-> "undefined"]
NaN == [t |-> "nan"]
\* A string known as a whole (a message, a key), and a string whose
\* characters matter (text typed into a form).
Str(s) == [t |-> "str", s |-> s]
Text(s) == [t |-> "text", s |-> s]

RECURSIVE Normalise(_, _)
Normalise(m, e) ==
    IF e > 0 /\ m % 10 = 0 THEN Normalise(m \div 10, e - 1)
    ELSE [t |-> "num", m |-> m, e |-> e]

Num(m, e) == Normalise(m, e)
Whole(n) == Num(n, 0)

isNaN(v) == v.t \in {"nan", "undefined"}

\* JavaScript truthiness of a value used as a condition or with ||.
Truthy(v) ==
    CASE v.t = "null" -> FALSE
      [] v.t = "undefined" -> FALSE
      [] v.t = "nan" -> FALSE
      [] v.t = "num" -> v.m # 0
      [] v.t = "str" -> v.s # ""
      [] v.t = "text" -> v.s # <<>>
      [] OTHER -> TRUE

\* a || b
OrElse(a, b) == IF Truthy(a) THEN a ELSE b

\* An array, and an object: its properties in insertion order.
Arr(items) == [t |-> "arr", items |-> items]
Obj(props) == [t |-> "obj", props |-> props]
Prop(k, v) == [k |-> k, v |-> v]

Keys(obj) == {obj.props[i].k : i \in DOMAIN obj.props}

\* obj.key: undefined when the object has no such property.
Get(obj, key) ==
    IF key \in Keys(obj)
    THEN (CHOOSE p \in {obj.props[i] : i \in DOMAIN obj.props} : p.k = key).v
    ELSE Undefined

\* new Error(message), and the errors the runtime itself throws.
Error(message) == [name |-> "Error", message |-> message]
SyntaxError == [name |-> "SyntaxError", message |-> "Unexpected token in JSON"]
FailedToFetch == [name |-> "TypeError", message |-> "Failed to fetch"]

\* How an async function settles.
Resolved(v) == [state |-> "fulfilled", value |-> v]
Rejected(e) == [state |-> "rejected", reason |-> e]

(***************************************************************************)
(* Text: String.prototype.trim, split(','), parseFloat and Number          *)
(***************************************************************************)
IsDigit(c) == c \in {"0", "1", "2", "3", "4", "5", "6", "7", "8", "9"}

DigitVal(c) ==
    CASE c = "0" -> 0 [] c = "1" -> 1 [] c = "2" -> 2 [] c = "3" -> 3
      [] c = "4" -> 4 [] c = "5" -> 5 [] c = "6" -> 6 [] c = "7" -> 7
      [] c = "8" -> 8 [] c = "9" -> 9

IsSpace(c) == c = " "

RECURSIVE TrimStart(_)
TrimStart(s) ==
    IF s # <<>> /\ IsSpace(Head(s)) THEN TrimStart(Tail(s)) ELSE s

RECURSIVE TrimEnd(_)
TrimEnd(s) ==
    IF s # <<>> /\ IsSpace(s[Len(s)]) THEN TrimEnd(SubSeq(s, 1, Len(s) - 1))
    ELSE s

trim(s) == TrimEnd(TrimStart(s))

\* s.split(sep): the pieces between the separators; "" splits to [""].
RECURSIVE SplitFrom(_, _, _)
SplitFrom(s, sep, cur) ==
    IF s = <<>> THEN <<cur>>
    ELSE IF Head(s) = sep THEN <<cur>> \o SplitFrom(Tail(s), sep, <<>>)
    ELSE SplitFrom(Tail(s), sep, Append(cur, Head(s)))

split(s, sep) == SplitFrom(s, sep, <<>>)

\* The length of the longest run of digits at the start of s.
RECURSIVE DigitRun(_)
DigitRun(s) ==
    IF s # <<>> /\ IsDigit(Head(s)) THEN 1 + DigitRun(Tail(s)) ELSE 0

RECURSIVE DigitsValue(_, _)
DigitsValue(s, acc) ==
    IF s = <<>> THEN acc ELSE DigitsValue(Tail(s), 10 * acc + DigitVal(Head(s)))

\* The longest decimal literal at the start of s (sign, digits, point,
\* digits): how many characters it takes and its value; NaN and 0 characters
\* when s starts with no literal.
DecimalPrefix(s) ==
    LET signed == s # <<>> /\ Head(s) \in {"+", "-"}
        neg == signed /\ Head(s) = "-"
        body == IF signed THEN Tail(s) ELSE s
        ni == DigitRun(body)
        rest == SubSeq(body, ni + 1, Len(body))
        point == rest # <<>> /\ Head(rest) = "."
        nf == IF point THEN DigitRun(Tail(rest)) ELSE 0
        digits == SubSeq(body, 1, ni) \o SubSeq(rest, 2, nf + 1)
        mag == DigitsValue(digits, 0)
    IN  IF ni + nf = 0 THEN [len |-> 0, val |-> NaN]
        ELSE [len |-> (IF signed THEN 1 ELSE 0) + ni + (IF point THEN 1 + nf ELSE 0),
              val |-> Num(IF neg THEN 0 - mag ELSE mag, nf)]

\* parseFloat(s): leading white space skipped, trailing text ignored.
parseFloat(s) == DecimalPrefix(TrimStart(s)).val

\* Number(s): white space trimmed, "" is 0, and the whole text must be a
\* numeric literal.
Number(s) ==
    LET tr == trim(s)
        p == DecimalPrefix(tr)
    IN  IF tr = <<>> THEN Whole(0)
        ELSE IF p.len = Len(tr) THEN p.val
        ELSE NaN

(***************************************************************************)
(* JSON.stringify and response.json()                                      *)
(***************************************************************************)
\* A JSON text is kept as its syntax tree: null, a number, a string, an
\* array of texts, or an object's members in order.
JNull == [t |-> "jnull"]

RECURSIVE JSONstringify(_)
JSONstringify(v) ==
    CASE v.t = "num" -> [t |-> "jnum", m |-> v.m, e |-> v.e]
      [] v.t = "nan" -> JNull
      [] v.t = "null" -> JNull
      [] v.t = "undefined" -> JNull
      [] v.t = "str" -> [t |-> "jstr", s |-> v.s]
      [] v.t = "text" -> [t |-> "jtext", s |-> v.s]
      [] v.t = "arr" ->
            [t |-> "jarr",
             items |-> [i \in DOMAIN v.items |-> JSONstringify(v.items[i])]]
      [] v.t = "obj" ->
            LET kept == SelectSeq(v.props, LAMBDA p : p.v.t # "undefined")
            IN  [t |-> "jobj",
                 members |-> [i \in DOMAIN kept |->
                                 Prop(kept[i].k, JSONstringify(kept[i].v))]]

RECURSIVE JSONparse(_)
JSONparse(j) ==
    CASE j.t = "jnull" -> Null
      [] j.t = "jnum" -> Num(j.m, j.e)
      [] j.t = "jstr" -> Str(j.s)
      [] j.t = "jtext" -> Text(j.s)
      [] j.t = "jarr" ->
            Arr([i \in DOMAIN j.items |-> JSONparse(j.items[i])])
      [] j.t = "jobj" ->
            Obj([i \in DOMAIN j.members |->
                    Prop(j.members[i].k, JSONparse(j.members[i].v))])

\* A response body that is not JSON: response.json() rejects on it.
NotJSON == [t |-> "notjson"]

(***************************************************************************)
(* The fetch wrappers                                                      *)
(***************************************************************************)
API_BASE_URL == "http://localhost:8000"

\* response.json()
ResponseJson(response) ==
    IF response.body = NotJSON THEN Rejected(SyntaxError)
    ELSE Resolved(JSONparse(response.body))

\* errorData.detail, where errorData is whatever the body parsed to.
Detail(errorData) ==
    IF errorData.t = "obj" THEN Get(errorData, "detail") ELSE Undefined

\* The text new Error(v) keeps as its message.
MessageOf(v) ==
    CASE v.t = "str" -> v.s
      [] v.t = "obj" -> "[object Object]"
      [] OTHER -> "?"

\* How a function of controlSystemUtils.js settles once its fetch has
\* settled with `fetched`: a network failure and a body that is not JSON are
\* rethrown, a response that is not OK becomes an Error with the body's
\* detail or else the function's fallback message.
utilsSettle(fetched, fallback) ==
    IF fetched.state = "rejected" THEN Rejected(fetched.reason)
    ELSE LET response == fetched.value
             json == ResponseJson(response)
         IN  IF ~response.ok
             THEN IF json.state = "rejected" THEN json
                  ELSE Rejected(Error(MessageOf(
                           OrElse(Detail(json.value), Str(fallback)))))
             ELSE json

\* The request every function of controlSystemUtils.js and api.js makes: a
\* POST of a JSON body.
PostJson(path, data) ==
    [url |-> API_BASE_URL \o path,
     method |-> "POST",
     headers |-> Obj(<<Prop("Content-Type", Str("application/json"))>>),
     body |-> JSONstringify(data)]

\* services/api.js, apiRequest: how it settles once its fetch has settled
\* with `fetched`.  A body of a response that is not OK which is not JSON
\* counts as {detail: 'An unknown error occurred.'}.
apiRequest_settle(fetched) ==
    IF fetched.state = "rejected" THEN Rejected(fetched.reason)
    ELSE LET response == fetched.value
             json == ResponseJson(response)
             errorData ==
                 IF json.state = "rejected"
                 THEN Obj(<<Prop("detail", Str("An unknown error occurred."))>>)
                 ELSE json.value
         IN  IF ~response.ok
             THEN Rejected(Error(MessageOf(
                      OrElse(Detail(errorData),
                             Str("HTTP error! status: "
                                    \o ToString(response.status))))))
             ELSE json

\* The fallback message of inverseAnalyzeTimeDomainMetricsAPI, a Chinese
\* text ("backend inverse analysis failed"), written here in ASCII.
InverseFailedMessage == "houduan fanxiang fenxi shibai"

\* A variant that sends the metrics wrapped in an outer object.
inverseFetch_Wrapped(metrics) ==
    [url |-> API_BASE_URL \o "/inverse_analyze_tf",
     method |-> "POST",
     headers |-> Obj(<<Prop("Content-Type", Str("application/json"))>>),
     body |-> JSONstringify(Obj(<<Prop("metrics", metrics)>>))]

\* The fetch call of inverseAnalyzeTimeDomainMetricsAPI(metrics).
inverseAnalyzeTimeDomainMetricsAPI_fetch(metrics) ==
    [url |-> API_BASE_URL \o "/inverse_analyze_tf",
     method |-> "POST",
     headers |-> Obj(<<Prop("Content-Type", Str("application/json"))>>),
     body |-> JSONstringify(metrics)]

\* A variant that returns only the damping ratio of the body it parsed.
inverseSettle_OneField(fetched) ==
    IF fetched.state = "rejected" THEN Rejected(fetched.reason)
    ELSE LET response == fetched.value
             json == ResponseJson(response)
         IN  IF ~response.ok
             THEN IF json.state = "rejected" THEN json
                  ELSE Rejected(Error(MessageOf(
                           OrElse(Detail(json.value), Str(InverseFailedMessage)))))
             ELSE IF json.state = "rejected" THEN json
             ELSE Resolved(Get(json.value, "damping_ratio"))

\* How inverseAnalyzeTimeDomainMetricsAPI settles once its fetch has settled
\* with `fetched`: the catch block logs and rethrows.
inverseAnalyzeTimeDomainMetricsAPI_settle(fetched) ==
    IF fetched.state = "rejected" THEN Rejected(fetched.reason)
    ELSE LET response == fetched.value
             json == ResponseJson(response)
         IN  IF ~response.ok
             THEN IF json.state = "rejected" THEN json
                  ELSE Rejected(Error(MessageOf(
                           OrElse(Detail(json.value), Str(InverseFailedMessage)))))
             ELSE json

\* services/api.js: the fetch call of inverseAnalyzeTf(data).
inverseAnalyzeTf_fetch(data) ==
    [url |-> API_BASE_URL \o "/inverse_analyze_tf",
     method |-> "POST",
     headers |-> Obj(<<Prop("Content-Type", Str("application/json"))>>),
     body |-> JSONstringify(data)]

(***************************************************************************)
(* State                                                                   *)
(***************************************************************************)
VARIABLES
    \* HomePage: the mode, which says whose form and whose result are shown
    mode,
    \* InverseAnalysisInput: the four number fields and the form's error
    riseTime, peakTime, maxOvershoot, settlingTime, inverseInputError,
    \* HomePage: the inverse analysis's result and error
    inverseAnalysisResult, inverseAnalysisError,
    \* the calls of inverseAnalyzeTimeDomainMetricsAPI whose fetch is pending,
    \* oldest first, and the call that settled last
    inverseInFlight, inverseSettled,
    \* SymbolicStabilityInput: the text of the field and the form's error
    coeffs, symbolicInputError,
    \* HomePage: the stability analysis's result and error
    symbolicStabilityResult, symbolicStabilityError,
    \* the fetches the last click issued, and how many fetches are pending
    symbolicRequests, symbolicPending,
    \* the design component shown (LagCompensation, LeadCompensation or
    \* PhasePortraitAnalysis): its text fields (desired is desiredKv or
    \* desiredPM), its result (plotData and analysis for the phase portrait),
    \* loading and error
    numerator, denominator, desired, result, plotData, analysis, loading, error,
    \* the fetches its last click issued, and how many of its fetches are pending
    designRequests, designPending,
    \* ControlSystemInput: the two coefficient texts and the error it shows
    controlNumerator, controlDenominator, controlInputError,
    \* HomePage: result and error of the forward analysis; the fetch its
    \* last click issued, and how many of its fetches are pending
    controlAnalysisResult, controlAnalysisError, controlRequests,
    controlPending,
    \* FrequencyAnalysis: its two coefficient texts, result, error and
    \* isLoading; the fetch its last click issued, and how many are pending
    numCoeffs, denCoeffs, faResult, faError, isLoading, faRequests, faPending,
    \* RootLocusInput: the texts of its zeros and poles and the error it shows
    rlZeros, rlPoles, rlInputError,
    \* HomePage: result and error of the root locus; the fetch the last click
    \* issued, and how many fetches are pending
    rootLocusResult, rootLocusError, rootLocusRequests, rootLocusPending,
    rootLocusInFlight, rootLocusShownOf,
    \* FrequencyDomainInput: the texts of its zeros, poles and gain and the
    \* error it shows
    fdZeros, fdPoles, gain, fdInputError,
    \* HomePage: result and error of the frequency-domain analysis; the fetch
    \* the last click issued, and how many fetches are pending
    frequencyDomainResult, frequencyDomainError, frequencyDomainRequests,
    frequencyDomainPending,
    \* services/api.js: the function called last, its argument and the fetches
    \* the call made
    apiFunction, apiData, apiFetches,
    \* the analysis engine: the factors of the denominator it was given last and
    \* what it reported of it
    engineFactors, engineReport,
    \* The lag design of the engine: the refinement loop and what it returns.
    lagLoop, lagResponse,
    \* parseComplexNumbers called on a text: the text and what the call gave.
    parseInput, parseResult,
    \* A trace of a result view: the arrays of the response it is drawn from, and the x and y given to the plot.
    traceSamples, trace,
    \* RootLocusResult: the coordinates getRange is called with, and the range it gave.
    rangeData, range,
    \* A function of the client's API settling: the function with the response its fetch got, and how it settled.
    clientCall, clientOutcome

inverseVars ==
    <<riseTime, peakTime, maxOvershoot, settlingTime, inverseInputError,
      inverseAnalysisResult, inverseAnalysisError, inverseInFlight,
      inverseSettled>>

symbolicVars ==
    <<coeffs, symbolicInputError, symbolicStabilityResult,
      symbolicStabilityError, symbolicRequests, symbolicPending>>

designVars ==
    <<numerator, denominator, desired, result, plotData, analysis,
      loading, error, designRequests, designPending>>

controlVars ==
    <<controlNumerator, controlDenominator, controlInputError,
      controlAnalysisResult, controlAnalysisError, controlRequests,
      controlPending>>

faVars ==
    <<numCoeffs, denCoeffs, faResult, faError, isLoading, faRequests,
      faPending>>

rootLocusVars ==
    <<rlZeros, rlPoles, rlInputError, rootLocusResult, rootLocusError,
      rootLocusRequests, rootLocusPending, rootLocusInFlight,
      rootLocusShownOf>>

frequencyDomainVars ==
    <<fdZeros, fdPoles, gain, fdInputError, frequencyDomainResult,
      frequencyDomainError, frequencyDomainRequests, frequencyDomainPending>>

apiVars ==
    <<apiFunction, apiData, apiFetches>>

engineVars ==
    <<engineFactors, engineReport>>

lagVars ==
    <<lagLoop, lagResponse>>

parsingVars ==
    <<parseInput, parseResult>>

traceVars ==
    <<traceSamples, trace>>

rangeVars ==
    <<rangeData, range>>

clientVars ==
    <<clientCall, clientOutcome>>

vars ==
    <<mode, inverseVars, symbolicVars, designVars, controlVars, faVars,
      rootLocusVars, frequencyDomainVars, apiVars, engineVars, lagVars,
      parsingVars, traceVars, rangeVars, clientVars>>

(***************************************************************************)
(* Bounds and the inputs drawn                                             *)
(***************************************************************************)
\* How many fetches of one analysis may be pending at once.
MaxInFlight == 1

\* How many calls of handleRootLocusPlot may be pending at once.
MaxOverlap == 2

\* How many comma-separated pieces are typed into a text field.
MaxPieces == 2

\* The texts of at least one and at most n of the given pieces, joined by
\* commas.
RECURSIVE TextsOf(_, _)
TextsOf(pieces, n) ==
    IF n <= 1 THEN pieces
    ELSE LET shorter == TextsOf(pieces, n - 1)
         IN  shorter \cup {s \o <<",">> \o p : s \in shorter, p \in pieces}

\* What a number field may hold: nothing or a numeral (the browser gives ""
\* for anything else typed into an input of type number).
FieldTexts(field) ==
    CASE field = "riseTime" -> {<<>>, <<"0">>}
      [] field = "peakTime" -> {<<>>, <<"1", ".", "5">>}
      [] field = "maxOvershoot" -> {<<>>, <<"5">>}
      [] field = "settlingTime" -> {<<>>, <<"2">>}

\* The bodies the server may answer an inverse analysis with.
InverseBodies ==
    { JSONstringify(Obj(<<Prop("damping_ratio", Num(5, 1)),
                          Prop("natural_frequency", Whole(2))>>)),
      JSONstringify(Obj(<<Prop("damping_ratio", Null),
                          Prop("natural_frequency", Null),
                          Prop("message", Str("inconsistent metrics"))>>)),
      JSONstringify(Obj(<<Prop("detail", Str("Invalid metrics"))>>)),
      JSONstringify(Obj(<<Prop("message", Str("Backend error"))>>)),
      NotJSON }

\* How a fetch may settle: a response, OK or not, or a network failure.
Fetched(bodies) ==
    {Resolved([ok |-> ok, body |-> b]) : ok \in BOOLEAN, b \in bodies}
        \cup {Rejected(FailedToFetch)}

(***************************************************************************)
(* InverseAnalysisInput and HomePage.handleInverseAnalysis                 *)
(***************************************************************************)
\* The metrics object handleAnalyze builds: a key for every field that is
\* not the empty text, in this order.
InverseMetrics(rt, pt, mo, st) ==
    Obj((IF rt # <<>> THEN <<Prop("rise_time", parseFloat(rt))>> ELSE <<>>)
        \o (IF pt # <<>> THEN <<Prop("peak_time", parseFloat(pt))>> ELSE <<>>)
        \o (IF mo # <<>> THEN <<Prop("max_overshoot", parseFloat(mo))>> ELSE <<>>)
        \o (IF st # <<>> THEN <<Prop("settling_time", parseFloat(st))>> ELSE <<>>))

\* "Please enter at least one time-domain metric."
NoMetricMessage == "qing zhishao shuru yige shiyu zhibiao"

\* onChange of one of the four fields.
InverseChange ==
    /\ mode = "inverseAnalysis"
    /\ \E field \in {"riseTime", "peakTime", "maxOvershoot", "settlingTime"} :
       \E text \in FieldTexts(field) :
        /\ riseTime' = IF field = "riseTime" THEN text ELSE riseTime
        /\ peakTime' = IF field = "peakTime" THEN text ELSE peakTime
        /\ maxOvershoot' = IF field = "maxOvershoot" THEN text ELSE maxOvershoot
        /\ settlingTime' = IF field = "settlingTime" THEN text ELSE settlingTime
        /\ UNCHANGED <<inverseInputError, inverseAnalysisResult,
                       inverseAnalysisError, inverseInFlight, inverseSettled>>

\* HomePage.handleInverseAnalysis(metrics) up to its await: both states are
\* cleared and the fetch is issued.
handleInverseAnalysis(metrics) ==
    /\ inverseAnalysisError' = Null
    /\ inverseAnalysisResult' = Null
    /\ inverseInFlight' = Append(inverseInFlight,
            [metrics |-> metrics,
             request |-> inverseAnalyzeTimeDomainMetricsAPI_fetch(metrics)])

\* A variant without the check that some metric was entered.
InverseHandleAnalyze_NoCheck ==
    LET metrics == InverseMetrics(riseTime, peakTime, maxOvershoot, settlingTime)
    IN  /\ Len(inverseInFlight) < MaxInFlight
        /\ inverseInputError' = Null
        /\ handleInverseAnalysis(metrics)

\* InverseAnalysisInput.handleAnalyze: the click on the button.
InverseHandleAnalyze ==
    LET metrics == InverseMetrics(riseTime, peakTime, maxOvershoot, settlingTime)
    IN  IF Len(metrics.props) = 0
        THEN /\ inverseInputError' = Str(NoMetricMessage)
             /\ UNCHANGED <<inverseAnalysisResult, inverseAnalysisError,
                            inverseInFlight>>
        ELSE /\ Len(inverseInFlight) < MaxInFlight
             /\ inverseInputError' = Null
             /\ handleInverseAnalysis(metrics)

InverseClick ==
    /\ mode = "inverseAnalysis"
    /\ InverseHandleAnalyze
    /\ UNCHANGED <<riseTime, peakTime, maxOvershoot, settlingTime, inverseSettled>>

\* A pending fetch settles and handleInverseAnalysis resumes: the result is
\* stored, or the message of the error caught.
InverseSettle ==
    \E i \in DOMAIN inverseInFlight : \E fetched \in Fetched(InverseBodies) :
        LET outcome == inverseAnalyzeTimeDomainMetricsAPI_settle(fetched)
        IN  /\ inverseInFlight' =
                   SubSeq(inverseInFlight, 1, i - 1)
                       \o SubSeq(inverseInFlight, i + 1, Len(inverseInFlight))
            /\ inverseSettled' = <<[fetched |-> fetched, outcome |-> outcome]>>
            /\ IF outcome.state = "fulfilled"
               THEN /\ inverseAnalysisResult' = outcome.value
                    /\ UNCHANGED inverseAnalysisError
               ELSE /\ inverseAnalysisError' = Str(outcome.reason.message)
                    /\ UNCHANGED inverseAnalysisResult
            /\ UNCHANGED <<riseTime, peakTime, maxOvershoot, settlingTime,
                           inverseInputError>>

InverseInit ==
    /\ riseTime = <<>>
    /\ peakTime = <<>>
    /\ maxOvershoot = <<>>
    /\ settlingTime = <<>>
    /\ inverseInputError = Null
    /\ inverseAnalysisResult = Null
    /\ inverseAnalysisError = Null
    /\ inverseInFlight = <<>>
    /\ inverseSettled = <<>>

(***************************************************************************)
(* Properties of the inverse analysis                                      *)
(***************************************************************************)
\* The settled call, when its fetch got a response (OK or not) whose body
\* parsed.
InverseAnswered(ok) ==
    /\ inverseSettled # <<>>
    /\ inverseSettled[1].fetched.state = "fulfilled"
    /\ inverseSettled[1].fetched.value.ok = ok
    /\ inverseSettled[1].fetched.value.body # NotJSON

\* C1: on a non-OK response whose body is {message: m}, the inverse-analysis
\* client function rejects with an Error whose message is m.
C1_RejectsWithBodyMessage ==
    InverseAnswered(FALSE) =>
        LET errorData == JSONparse(inverseSettled[1].fetched.value.body)
            outcome == inverseSettled[1].outcome
        IN  Keys(errorData) = {"message"} =>
                /\ outcome.state = "rejected"
                /\ outcome.reason.name = "Error"
                /\ Str(outcome.reason.message) = Get(errorData, "message")

\* C2: every call of the inverse-analysis client function with metrics m
\* issues a POST to http://localhost:8000/inverse_analyze_tf with the header
\* Content-Type: application/json and the JSON serialization of m as its
\* body, which parses back to m: no field added, removed or changed.  The
\* function of services/api.js issues the same request.
C2_InverseRequest ==
    \A i \in DOMAIN inverseInFlight :
        LET m == inverseInFlight[i].metrics
            request == inverseInFlight[i].request
        IN  /\ request.url = "http://localhost:8000/inverse_analyze_tf"
            /\ request.method = "POST"
            /\ request.headers =
                   Obj(<<Prop("Content-Type", Str("application/json"))>>)
            /\ request.body = JSONstringify(m)
            /\ JSONparse(request.body) = m
            /\ inverseAnalyzeTf_fetch(m) = request

\* C2's case: a request for two metrics is pending.
C2_Witness ==
    /\ inverseInFlight # <<>>
    /\ Keys(inverseInFlight[1].metrics) = {"peak_time", "max_overshoot"}

\* C3: on an OK response the inverse-analysis client function resolves to
\* exactly the parsed response body, which HomePage then stores.
C3_ResolvesToBody ==
    InverseAnswered(TRUE) =>
        LET r == JSONparse(inverseSettled[1].fetched.value.body)
        IN  /\ inverseSettled[1].outcome = Resolved(r)
            /\ inverseInFlight = <<>> => inverseAnalysisResult = r

\* C3's case: an OK response with a result body has been received.
C3_Witness ==
    /\ InverseAnswered(TRUE)
    /\ "damping_ratio" \in Keys(JSONparse(inverseSettled[1].fetched.value.body))
    /\ inverseAnalysisResult # Null

MetricKeys == {"rise_time", "peak_time", "max_overshoot", "settling_time"}

\* C8: every inverse_analyze_tf request carries a non-empty subset of the
\* four metric keys and no other key, and a click with all four fields
\* empty sets the form's error and sends no request.
C8_NonEmptyMetrics ==
    /\ [](\A i \in DOMAIN inverseInFlight :
            LET sent == JSONparse(inverseInFlight[i].request.body)
            IN  /\ sent.t = "obj"
                /\ Keys(sent) # {}
                /\ Keys(sent) \subseteq MetricKeys)
    /\ [][(/\ riseTime = <<>> /\ peakTime = <<>>
           /\ maxOvershoot = <<>> /\ settlingTime = <<>>
           /\ InverseClick)
          => (/\ inverseInputError' = Str(NoMetricMessage)
              /\ inverseInFlight' = inverseInFlight)]_vars
    /\ [][(/\ riseTime = <<>> /\ peakTime = <<>>
           /\ maxOvershoot = <<>> /\ settlingTime = <<>>
           /\ UNCHANGED <<riseTime, peakTime, maxOvershoot, settlingTime>>)
          => Len(inverseInFlight') <= Len(inverseInFlight)]_vars

\* C8's case: a request carrying rise_time = 0 alone is pending, and a later
\* click with every field empty has set the error and sent nothing more.
C8_Witness ==
    /\ riseTime = <<>> /\ peakTime = <<>>
    /\ maxOvershoot = <<>> /\ settlingTime = <<>>
    /\ inverseInputError = Str(NoMetricMessage)
    /\ Len(inverseInFlight) = 1
    /\ inverseInFlight[1].metrics = Obj(<<Prop("rise_time", Whole(0))>>)

(***************************************************************************)
(* SymbolicStabilityInput, HomePage.handleSymbolicStabilityAnalyze and     *)
(* analyzeSymbolicStabilityAPI                                             *)
(***************************************************************************)
\* The pieces typed into the coefficient field: nothing, a numeric literal
\* after a space, the token x, expressions in x, and a letter the field is
\* not made for.
SymbolicPieces ==
    { <<>>, <<" ", "1">>, <<"x">>, <<"x", "+", "1">>, <<"x", "x">>,
      <<"(", ")">>, <<"2", "*", "x">>, <<"a">> }

\* The texts typed into the coefficient field.
SymbolicTexts == TextsOf(SymbolicPieces, MaxPieces)

\* /^[0-9x\s.,+\-*\/()]*$/.test(text)
validChars(text) ==
    \A i \in DOMAIN text :
        \/ IsDigit(text[i])
        \/ IsSpace(text[i])
        \/ text[i] \in {"x", ".", ",", "+", "-", "*", "/", "(", ")"}

\* coeffs.split(',').map(s => s.trim()).filter(s => s !== '')
coeffStrings(text) ==
    LET pieces == split(text, ",")
        trimmed == [i \in DOMAIN pieces |-> trim(pieces[i])]
    IN  SelectSeq(trimmed, LAMBDA piece : piece # <<>>)

\* "Please enter the coefficients of the characteristic equation."
NoCoeffsMessage == "qing shuru tezheng fangcheng de xishu"
\* "The coefficients contain invalid characters."
InvalidCharsMessage == "xishu zhong baohan wuxiao zifu"
\* The fallback message of analyzeSymbolicStabilityAPI ("backend symbolic
\* stability analysis failed").
SymbolicFailedMessage == "houduan fuhao wendingxing fenxi shibai"

analyzeSymbolicStabilityAPI_fetch(coeffList) ==
    PostJson("/analyze_stability_range",
             Obj(<<Prop("denominator_coeffs", coeffList)>>))

analyzeSymbolicStabilityAPI_settle(fetched) ==
    utilsSettle(fetched, SymbolicFailedMessage)

\* HomePage.handleSymbolicStabilityAnalyze(coeffs) up to its await.
handleSymbolicStabilityAnalyze(coeffList) ==
    /\ symbolicStabilityError' = Null
    /\ symbolicStabilityResult' = Null
    /\ symbolicRequests' = <<analyzeSymbolicStabilityAPI_fetch(coeffList)>>
    /\ symbolicPending' = symbolicPending + 1

\* A variant that tests the characters of nothing.
SymbolicHandleAnalyze_NoTest ==
    LET strings == coeffStrings(coeffs')
    IN  IF Len(strings) = 0
        THEN /\ symbolicInputError' = Str(NoCoeffsMessage)
             /\ symbolicRequests' = <<>>
             /\ UNCHANGED <<symbolicStabilityResult, symbolicStabilityError,
                            symbolicPending>>
        ELSE /\ symbolicPending < MaxInFlight
             /\ symbolicInputError' = Null
             /\ handleSymbolicStabilityAnalyze(
                    Arr([i \in DOMAIN strings |-> Text(strings[i])]))

\* SymbolicStabilityInput.handleAnalyze, on the text just typed.
SymbolicHandleAnalyze ==
    LET strings == coeffStrings(coeffs')
    IN  IF Len(strings) = 0
        THEN /\ symbolicInputError' = Str(NoCoeffsMessage)
             /\ symbolicRequests' = <<>>
             /\ UNCHANGED <<symbolicStabilityResult, symbolicStabilityError,
                            symbolicPending>>
        ELSE IF ~validChars(coeffs')
        THEN /\ symbolicInputError' = Str(InvalidCharsMessage)
             /\ symbolicRequests' = <<>>
             /\ UNCHANGED <<symbolicStabilityResult, symbolicStabilityError,
                            symbolicPending>>
        ELSE /\ symbolicPending < MaxInFlight
             /\ symbolicInputError' = Null
             /\ handleSymbolicStabilityAnalyze(
                    Arr([i \in DOMAIN strings |-> Text(strings[i])]))

\* The user types a text into the field and clicks the button.
SymbolicSubmit ==
    /\ mode = "symbolicStability"
    /\ \E text \in SymbolicTexts :
        /\ coeffs' = text
        /\ SymbolicHandleAnalyze

\* How the fetch of a stability analysis may settle: the range found, or
\* the engine's refusal of the coefficients.
SymbolicFetched ==
    { Resolved([ok |-> TRUE,
                body |-> JSONstringify(Obj(<<
                    Prop("message", Str("stable for")),
                    Prop("stability_range", Str("x > 0"))>>))]),
      Resolved([ok |-> FALSE,
                body |-> JSONstringify(Obj(<<
                    Prop("detail", Str("cannot parse"))>>))]) }

\* A pending fetch settles and handleSymbolicStabilityAnalyze resumes.
SymbolicSettle ==
    /\ symbolicPending > 0
    /\ \E fetched \in SymbolicFetched :
        LET outcome == analyzeSymbolicStabilityAPI_settle(fetched)
        IN  IF outcome.state = "fulfilled"
            THEN /\ symbolicStabilityResult' = outcome.value
                 /\ UNCHANGED symbolicStabilityError
            ELSE /\ symbolicStabilityError' = Str(outcome.reason.message)
                 /\ UNCHANGED symbolicStabilityResult
    /\ symbolicPending' = symbolicPending - 1
    /\ UNCHANGED <<coeffs, symbolicInputError, symbolicRequests>>

SymbolicInit ==
    /\ coeffs = <<>>
    /\ symbolicInputError = Null
    /\ symbolicStabilityResult = Null
    /\ symbolicStabilityError = Null
    /\ symbolicRequests = <<>>
    /\ symbolicPending = 0

(***************************************************************************)
(* Properties of the symbolic stability form                               *)
(***************************************************************************)
\* The strings of denominator_coeffs in the request the last click sent.
SymbolicSent ==
    IF symbolicRequests = <<>> THEN <<>>
    ELSE Get(JSONparse(symbolicRequests[1].body), "denominator_coeffs").items

\* A text that is a numeric literal as a whole.
IsNumericLiteral(s) == s # <<>> /\ DecimalPrefix(s).len = Len(s)

\* C4, as claimed: every string sent in denominator_coeffs is a numeric
\* literal or exactly the token x.
C4_OnlyLiteralsOrX ==
    \A i \in DOMAIN SymbolicSent :
        \/ SymbolicSent[i].s = <<"x">>
        \/ IsNumericLiteral(SymbolicSent[i].s)

\* C4, amended: every string sent is a piece of the typed text between
\* commas, trimmed and not empty, made only of digits, x, white space and
\* . + - * / ( ); a text with any other character, or with no such piece,
\* is rejected with an error and no request is sent.
C4_SentStrings ==
    /\ \A i \in DOMAIN SymbolicSent :
          LET c == SymbolicSent[i].s
          IN  /\ SymbolicSent[i].t = "text"
              /\ c # <<>>
              /\ ~IsSpace(c[1]) /\ ~IsSpace(c[Len(c)])
              /\ \A k \in DOMAIN c :
                    \/ IsDigit(c[k])
                    \/ c[k] \in {"x", " ", ".", "+", "-", "*", "/", "(", ")"}
              /\ \E from \in 1..Len(coeffs) :
                    \E to \in from..Len(coeffs) :
                        /\ SubSeq(coeffs, from, to) = c
                        /\ from > 1 => coeffs[from - 1] \in {",", " "}
                        /\ to < Len(coeffs) => coeffs[to + 1] \in {",", " "}
    /\ symbolicRequests # <<>> =>
          /\ symbolicInputError = Null
          /\ Len(SymbolicSent) >= 1
    \* no request: an error is shown, unless nothing was submitted yet
    /\ symbolicRequests = <<>> =>
          \/ symbolicInputError # Null
          \/ coeffs = <<>>
    /\ (\E k \in DOMAIN coeffs :
            /\ ~IsDigit(coeffs[k])
            /\ coeffs[k] \notin {"x", " ", ".", ",", "+", "-", "*", "/", "(", ")"})
          => /\ symbolicRequests = <<>>
             /\ symbolicInputError # Null

\* C4's case: the expression x+1 and the text () were sent as coefficients.
C4_Witness ==
    /\ Len(SymbolicSent) = 2
    /\ SymbolicSent[1].s = <<"x", "+", "1">>
    /\ SymbolicSent[2].s = <<"(", ")">>

(***************************************************************************)
(* The design components: LagCompensation, LeadCompensation and            *)
(* PhasePortraitAnalysis, of which HomePage mounts the one of its mode     *)
(***************************************************************************)
\* text.split(',').map(s => parseFloat(s.trim())).filter(n => !isNaN(n))
parseCoeffs(text) ==
    LET pieces == split(text, ",")
        numbers == [i \in DOMAIN pieces |-> parseFloat(trim(pieces[i]))]
    IN  SelectSeq(numbers, LAMBDA n : ~isNaN(n))

\* The pieces typed into a denominator field: nothing, a number after a
\* space, a letter, and a number followed by a letter.
CoeffPieces == {<<>>, <<" ", "1">>, <<"a">>, <<"2", "a">>}

DenominatorTexts == TextsOf(CoeffPieces, MaxPieces)
NumeratorTexts == {<<"1">>, <<"a">>}
DesiredTexts == {<<"1", "0">>, <<"k">>}

\* The fields a design component shows when it is mounted; no field while
\* the mode shows none of them.
InitialFields(m) ==
    CASE m = "lagCompensation" ->
            [numerator |-> <<"1", "0">>,
             denominator |-> <<"1", ",", "3", ",", "2", ",", "0">>,
             desired |-> <<"1", "0">>]
      [] m = "leadCompensation" ->
            [numerator |-> <<"1", "0">>,
             denominator |-> <<"1", ",", "3", ",", "2">>,
             desired |-> <<"6", "0">>]
      [] m = "phasePortrait" ->
            [numerator |-> <<"1">>,
             denominator |-> <<"1", ",", "1", ",", "1">>,
             desired |-> <<>>]
      [] OTHER -> [numerator |-> <<>>, denominator |-> <<>>, desired |-> <<>>]

DesignModes == {"lagCompensation", "leadCompensation", "phasePortrait"}

\* "Please enter valid transfer function coefficients and the desired Kv."
LagInvalidMessage == "qing shuru youxiao de chuandi hanshu xishu he qiwang de Kv zhi"
\* "Please enter valid transfer function coefficients and the desired phase
\* margin."
LeadInvalidMessage == "qing shuru youxiao de chuandi hanshu xishu he qiwang de xiangjiao yudu"
\* "Invalid coefficients.  Please enter numbers separated by commas."
PhaseInvalidMessage == "wuxiao de xishu, qing shuru yi douhao fenge de shuzi"
\* "An unknown error occurred during the design."
DesignUnknownMessage == "sheji guocheng zhong fasheng weizhi cuowu"
\* "An error occurred during the analysis."
PhaseUnknownMessage == "fenxi guocheng zhong fasheng cuowu"

designLagCompensator_fetch(data) ==
    PostJson("/compensation/design_lag_compensator", data)

designLeadCompensator_fetch(data) ==
    PostJson("/compensation/design_lead_compensator", data)

plotPhasePortrait_fetch(data) ==
    PostJson("/analysis/plot_phase_portrait", data)

\* What the catch block of a handler stores: err.message || fallback.
CaughtMessage(err, fallback) ==
    IF err.message # "" THEN Str(err.message) ELSE Str(fallback)

\* The user fills the fields of the mounted component.
Typed ==
    /\ numerator' \in NumeratorTexts
    /\ denominator' \in DenominatorTexts
    /\ desired' \in IF mode = "phasePortrait" THEN {<<>>} ELSE DesiredTexts

\* A variant of the body of a design handler that does not clear the result
\* of the design before.
DesignTry_KeepResult(valid, invalidMessage, request) ==
    /\ UNCHANGED result
    /\ plotData' = Null
    /\ analysis' = Null
    /\ IF valid
       THEN /\ loading' = TRUE
            /\ error' = Null
            /\ designRequests' = <<request>>
            /\ designPending' = designPending + 1
       ELSE /\ loading' = FALSE
            /\ error' = CaughtMessage(Error(invalidMessage), DesignUnknownMessage)
            /\ designRequests' = <<>>
            /\ UNCHANGED designPending

\* The body of a design handler, from its try to its finally: the
\* coefficients are parsed and checked; a failed check is thrown, caught and
\* shown, and loading is reset; otherwise the request is sent and the
\* handler waits with loading set.
DesignTry(valid, invalidMessage, request) ==
    /\ result' = Null
    /\ plotData' = Null
    /\ analysis' = Null
    /\ IF valid
       THEN /\ loading' = TRUE
            /\ error' = Null
            /\ designRequests' = <<request>>
            /\ designPending' = designPending + 1
       ELSE /\ loading' = FALSE
            /\ error' = CaughtMessage(Error(invalidMessage), DesignUnknownMessage)
            /\ designRequests' = <<>>
            /\ UNCHANGED designPending

\* LagCompensation.handleDesign, on the fields just typed.  The button does
\* not take a click while loading.
LagHandleDesign ==
    /\ mode = "lagCompensation"
    /\ ~loading
    /\ Typed
    /\ LET num_coeffs == parseCoeffs(numerator')
           den_coeffs == parseCoeffs(denominator')
           kv == parseFloat(desired')
       IN  DesignTry(
               ~(Len(num_coeffs) = 0 \/ Len(den_coeffs) = 0 \/ isNaN(kv)),
               LagInvalidMessage,
               designLagCompensator_fetch(Obj(<<
                   Prop("numerator", Arr(num_coeffs)),
                   Prop("denominator", Arr(den_coeffs)),
                   Prop("desired_kv", kv)>>)))

\* LeadCompensation.handleDesign, on the fields just typed.
LeadHandleDesign ==
    /\ mode = "leadCompensation"
    /\ ~loading
    /\ Typed
    /\ LET num_coeffs == parseCoeffs(numerator')
           den_coeffs == parseCoeffs(denominator')
           pm == parseFloat(desired')
       IN  DesignTry(
               ~(Len(num_coeffs) = 0 \/ Len(den_coeffs) = 0 \/ isNaN(pm)),
               LeadInvalidMessage,
               designLeadCompensator_fetch(Obj(<<
                   Prop("numerator", Arr(num_coeffs)),
                   Prop("denominator", Arr(den_coeffs)),
                   Prop("desired_phase_margin", pm)>>)))

\* PhasePortraitAnalysis.handleAnalyze, on the fields just typed.
PhaseHandleAnalyze ==
    /\ mode = "phasePortrait"
    /\ ~loading
    /\ Typed
    /\ LET num_coeffs == parseCoeffs(numerator')
           den_coeffs == parseCoeffs(denominator')
       IN  DesignTry(
               ~(Len(num_coeffs) = 0 \/ Len(den_coeffs) = 0),
               PhaseInvalidMessage,
               plotPhasePortrait_fetch(Obj(<<
                   Prop("numerator", Arr(num_coeffs)),
                   Prop("denominator", Arr(den_coeffs))>>)))

\* A performance record of a design response: any of its fields may be null.
Performance(kv, pm, gm, wg, wp) ==
    Obj(<<Prop("kv", kv), Prop("phase_margin", pm), Prop("gain_margin_db", gm),
          Prop("gain_crossover_freq", wg), Prop("phase_crossover_freq", wp)>>)

DesignPlots ==
    Obj(<<Prop("bode", Obj(<<
              Prop("omega", Arr(<<Whole(1), Whole(10)>>)),
              Prop("uncompensated_mag_db", Arr(<<Whole(20), Null>>)),
              Prop("compensated_mag_db", Arr(<<Whole(10), Whole(0)>>))>>)),
          Prop("step_response", Obj(<<
              Prop("time", Arr(<<Whole(0), Whole(1)>>)),
              Prop("uncompensated_response", Arr(<<Whole(0), Num(5, 1)>>)),
              Prop("compensated_response", Arr(<<Whole(0), Num(9, 1)>>))>>))>>)

DesignBody(compensator, before, after) ==
    Obj(<<Prop("compensator", compensator),
          Prop("performance",
               Obj(<<Prop("before", before), Prop("after", after)>>)),
          Prop("plots", DesignPlots)>>)

LagCompensator ==
    Obj(<<Prop("zero", Num(1, 1)), Prop("pole", Num(1, 2)),
          Prop("beta", Whole(10))>>)

LeadCompensator ==
    Obj(<<Prop("zero", Num(15, 1)), Prop("pole", Whole(6)),
          Prop("alpha", Num(25, 2)), Prop("omega_m", Whole(3))>>)

\* The performance records the server answers with: every field a number;
\* margins and crossover frequencies that do not exist (null); and every
\* field 0.
PerformanceRecords ==
    {Performance(Whole(5), Num(455, 1), Whole(12), Num(15, 1), Whole(3)),
     Performance(Null, Null, Null, Whole(2), Null),
     Performance(Whole(0), Whole(0), Whole(0), Whole(0), Whole(0))}

LagBodies ==
    {DesignBody(LagCompensator, p, p) : p \in PerformanceRecords}

LeadBodies ==
    {DesignBody(LeadCompensator, p, p) : p \in PerformanceRecords}

PhaseBodies ==
    {Obj(<<Prop("trajectories", Arr(<<
               Obj(<<Prop("x", Arr(<<Whole(1), Whole(0)>>)),
                     Prop("y", Arr(<<Whole(0), Whole(0)>>))>>)>>)),
           Prop("equilibrium_analysis", Obj(<<
               Prop("point", Arr(<<Whole(0), Whole(0)>>)),
               Prop("type", Str("stable focus"))>>))>>),
     Obj(<<Prop("trajectories", Arr(<<>>))>>)}

\* How the fetch of apiRequest settles: a response that is OK with one of
\* the bodies, responses that are not OK (with a detail, with a body that
\* has none, with a body that is not JSON), or no response.
DesignFetched(bodies) ==
    {Resolved([ok |-> TRUE, status |-> 200, body |-> JSONstringify(b)]) :
        b \in bodies}
    \cup {Resolved([ok |-> FALSE, status |-> 400,
                    body |-> JSONstringify(Obj(<<
                        Prop("detail", Str("System is unstable"))>>))]),
          Resolved([ok |-> FALSE, status |-> 422,
                    body |-> JSONstringify(Obj(<<>>))]),
          Resolved([ok |-> FALSE, status |-> 500, body |-> NotJSON]),
          Rejected(FailedToFetch)}

\* A variant of the rest of the handler that resets loading after the
\* response only, not in a finally block.
LagSettle_NoFinally ==
    /\ mode = "lagCompensation"
    /\ designPending > 0
    /\ \E fetched \in DesignFetched(LagBodies) :
           LET outcome == apiRequest_settle(fetched)
           IN  IF outcome.state = "fulfilled"
               THEN /\ result' = outcome.value
                    /\ loading' = FALSE
                    /\ UNCHANGED error
               ELSE /\ error' = CaughtMessage(outcome.reason, DesignUnknownMessage)
                    /\ UNCHANGED <<result, loading>>
    /\ designPending' = designPending - 1
    /\ UNCHANGED <<numerator, denominator, desired, plotData, analysis,
                   designRequests>>

\* The rest of a design handler, once apiRequest has settled: the response
\* is stored, or the error is caught and shown; finally loading is reset.
LagSettle ==
    /\ mode = "lagCompensation"
    /\ designPending > 0
    /\ \E fetched \in DesignFetched(LagBodies) :
           LET outcome == apiRequest_settle(fetched)
           IN  IF outcome.state = "fulfilled"
               THEN /\ result' = outcome.value
                    /\ UNCHANGED error
               ELSE /\ error' = CaughtMessage(outcome.reason, DesignUnknownMessage)
                    /\ UNCHANGED result
    /\ loading' = FALSE
    /\ designPending' = designPending - 1
    /\ UNCHANGED <<numerator, denominator, desired, plotData, analysis,
                   designRequests>>

LeadSettle ==
    /\ mode = "leadCompensation"
    /\ designPending > 0
    /\ \E fetched \in DesignFetched(LeadBodies) :
           LET outcome == apiRequest_settle(fetched)
           IN  IF outcome.state = "fulfilled"
               THEN /\ result' = outcome.value
                    /\ UNCHANGED error
               ELSE /\ error' = CaughtMessage(outcome.reason, DesignUnknownMessage)
                    /\ UNCHANGED result
    /\ loading' = FALSE
    /\ designPending' = designPending - 1
    /\ UNCHANGED <<numerator, denominator, desired, plotData, analysis,
                   designRequests>>

PhaseSettle ==
    /\ mode = "phasePortrait"
    /\ designPending > 0
    /\ \E fetched \in DesignFetched(PhaseBodies) :
           LET outcome == apiRequest_settle(fetched)
           IN  IF outcome.state = "fulfilled"
               THEN /\ plotData' = Get(outcome.value, "trajectories")
                    /\ analysis' = Get(outcome.value, "equilibrium_analysis")
                    /\ UNCHANGED error
               ELSE /\ error' = CaughtMessage(outcome.reason, PhaseUnknownMessage)
                    /\ UNCHANGED <<plotData, analysis>>
    /\ loading' = FALSE
    /\ designPending' = designPending - 1
    /\ UNCHANGED <<numerator, denominator, desired, result,
                   designRequests>>

DesignInit ==
    /\ numerator = InitialFields("lagCompensation").numerator
    /\ denominator = InitialFields("lagCompensation").denominator
    /\ desired = InitialFields("lagCompensation").desired
    /\ result = Null
    /\ plotData = Null
    /\ analysis = Null
    /\ loading = FALSE
    /\ error = Null
    /\ designRequests = <<>>
    /\ designPending = 0

(***************************************************************************)
(* The forward analysis: ControlSystemInput, HomePage's handler and        *)
(* analyzeTransferFunctionAPI                                              *)
(***************************************************************************)
\* text.split(',').map(Number)
NumberList(text) ==
    LET pieces == split(text, ",")
    IN  [i \in DOMAIN pieces |-> Number(pieces[i])]

ControlNumeratorTexts == {<<"1">>, <<>>, <<"a">>}
ControlDenominatorTexts == TextsOf(CoeffPieces, MaxPieces)

\* "The coefficients must be valid numbers."
InvalidNumberMessage == "xishu bixu shi youxiao de shuzi"
\* The fallback message of analyzeTransferFunctionAPI ("backend analysis
\* failed").
AnalysisFailedMessage == "houduan fenxi shibai"

analyzeTransferFunctionAPI_fetch(num, den) ==
    PostJson("/analyze_tf",
             Obj(<<Prop("numerator", num), Prop("denominator", den)>>))

analyzeTransferFunctionAPI_settle(fetched) ==
    utilsSettle(fetched, AnalysisFailedMessage)

\* HomePage.handleControlSystemAnalyze(numerator, denominator) up to its
\* await.
handleControlSystemAnalyze(num, den) ==
    /\ controlAnalysisError' = Null
    /\ controlAnalysisResult' = Null
    /\ controlRequests' = <<analyzeTransferFunctionAPI_fetch(num, den)>>
    /\ controlPending' = controlPending + 1

\* ControlSystemInput.handleAnalyze, on the texts just typed.
ControlHandleAnalyze ==
    LET num == NumberList(controlNumerator')
        den == NumberList(controlDenominator')
    IN  IF (\E i \in DOMAIN num : isNaN(num[i]))
           \/ (\E i \in DOMAIN den : isNaN(den[i]))
        THEN /\ controlInputError' = Str(InvalidNumberMessage)
             /\ controlRequests' = <<>>
             /\ UNCHANGED <<controlAnalysisResult, controlAnalysisError,
                            controlPending>>
        ELSE /\ controlPending < MaxInFlight
             /\ controlInputError' = Null
             /\ handleControlSystemAnalyze(Arr(num), Arr(den))

\* The user types the two texts and clicks the button.
ControlSubmit ==
    /\ mode = "controlSystem"
    /\ \E n \in ControlNumeratorTexts, d \in ControlDenominatorTexts :
        /\ controlNumerator' = n
        /\ controlDenominator' = d
        /\ ControlHandleAnalyze

\* How the fetch of a forward analysis may settle: metrics and stability,
\* no metrics for a system that is not stable, the engine's refusal, or no
\* response.
ControlFetched ==
    { Resolved([ok |-> TRUE,
                body |-> JSONstringify(Obj(<<
                    Prop("metrics", Obj(<<
                        Prop("rise_time", Num(12, 1)),
                        Prop("peak_time", Null),
                        Prop("max_overshoot", Whole(0)),
                        Prop("settling_time_2_percent", Whole(4)),
                        Prop("settling_time_5_percent", Whole(3))>>)),
                    Prop("stability", Obj(<<
                        Prop("status", Str("stable")),
                        Prop("poles", Arr(<<Str("-1+0j")>>))>>))>>))]),
      Resolved([ok |-> TRUE,
                body |-> JSONstringify(Obj(<<
                    Prop("metrics", Null),
                    Prop("stability", Obj(<<
                        Prop("status", Str("unstable")),
                        Prop("poles", Arr(<<Str("1+2j"), Str("1-2j")>>))>>))>>))]),
      Resolved([ok |-> FALSE,
                body |-> JSONstringify(Obj(<<
                    Prop("detail", Str("Denominator is zero"))>>))]),
      Rejected(FailedToFetch) }

\* A variant of the settle step that sends the request of a failed forward
\* analysis once more before it gives up.
ControlSettle_Retry ==
    /\ controlPending > 0
    /\ \E fetched \in ControlFetched :
        LET outcome == analyzeTransferFunctionAPI_settle(fetched)
        IN  IF outcome.state = "fulfilled"
            THEN /\ controlAnalysisResult' = outcome.value
                 /\ controlPending' = controlPending - 1
                 /\ UNCHANGED <<controlAnalysisError, controlRequests>>
            ELSE IF Len(controlRequests) = 1
            THEN /\ controlRequests' = controlRequests \o controlRequests
                 /\ UNCHANGED <<controlAnalysisResult, controlAnalysisError,
                                controlPending>>
            ELSE /\ controlAnalysisError' = Str(outcome.reason.message)
                 /\ controlPending' = controlPending - 1
                 /\ UNCHANGED <<controlAnalysisResult, controlRequests>>
    /\ UNCHANGED <<controlNumerator, controlDenominator, controlInputError>>

\* A pending fetch settles and handleControlSystemAnalyze resumes.
ControlSettle ==
    /\ controlPending > 0
    /\ \E fetched \in ControlFetched :
        LET outcome == analyzeTransferFunctionAPI_settle(fetched)
        IN  IF outcome.state = "fulfilled"
            THEN /\ controlAnalysisResult' = outcome.value
                 /\ UNCHANGED controlAnalysisError
            ELSE /\ controlAnalysisError' = Str(outcome.reason.message)
                 /\ UNCHANGED controlAnalysisResult
    /\ controlPending' = controlPending - 1
    /\ UNCHANGED <<controlNumerator, controlDenominator, controlInputError,
                   controlRequests>>

ControlInit ==
    /\ controlNumerator = <<>>
    /\ controlDenominator = <<>>
    /\ controlInputError = Null
    /\ controlAnalysisResult = Null
    /\ controlAnalysisError = Null
    /\ controlRequests = <<>>
    /\ controlPending = 0

(***************************************************************************)
(* Properties of the coefficient fields of the design components           *)
(***************************************************************************)
\* The body of the request the last click of a design component sent.
DesignSent == JSONparse(designRequests[1].body)

\* The tokens of a coefficient text, and whether every one of them is a
\* number as a whole.
Tokens(text) == split(text, ",")

WellFormed(text) ==
    \A i \in DOMAIN Tokens(text) : IsNumericLiteral(trim(Tokens(text)[i]))

\* C5, as claimed: while a token of the numerator or of the denominator is
\* malformed or empty, the component shows an error and has sent no request;
\* what a request carries is one number for every token typed, in order.
C5_NoTokenDropped ==
    /\ ~(WellFormed(numerator) /\ WellFormed(denominator)) =>
           designRequests = <<>> /\ error # Null
    /\ designRequests # <<>> =>
           /\ Len(Get(DesignSent, "numerator").items) = Len(Tokens(numerator))
           /\ Len(Get(DesignSent, "denominator").items)
                  = Len(Tokens(denominator))

(***************************************************************************)
(* parseComplexNumbers (utils/parsingUtils.js)                             *)
(***************************************************************************)
\* A character of the class [0-9\.], and the length of the longest run of
\* them at the start of s.
IsNumChar(c) == IsDigit(c) \/ c = "."

RECURSIVE NumRun(_)
NumRun(s) ==
    IF s # <<>> /\ IsNumChar(Head(s)) THEN 1 + NumRun(Tail(s)) ELSE 0

\* Whether r as a whole matches [+-]?[0-9\.]+j
IsImagPart(r) ==
    LET body == IF r # <<>> /\ Head(r) \in {"+", "-"} THEN Tail(r) ELSE r
    IN  /\ Len(body) >= 2
        /\ body[Len(body)] = "j"
        /\ \A i \in 1..(Len(body) - 1) : IsNumChar(body[i])

\* part.match(/^(-?[0-9\.]+)?([+-]?[0-9\.]+j)?$/): whether it matches, and
\* its two groups, the empty text standing for a group that took no part.
\* The first group is tried first and takes the longest run after which the
\* rest is nothing or matches the second group.
ComplexMatch(part) ==
    LET start == IF part # <<>> /\ Head(part) = "-" THEN 1 ELSE 0
        run == NumRun(SubSeq(part, start + 1, Len(part)))
        fits == {k \in 1..run :
                    LET rest == SubSeq(part, start + k + 1, Len(part))
                    IN  rest = <<>> \/ IsImagPart(rest)}
        longest == CHOOSE k \in fits : \A other \in fits : other <= k
    IN  IF fits # {}
        THEN [matched |-> TRUE,
              real |-> SubSeq(part, 1, start + longest),
              imag |-> SubSeq(part, start + longest + 1, Len(part))]
        ELSE IF part = <<>> \/ IsImagPart(part)
        THEN [matched |-> TRUE, real |-> <<>>, imag |-> part]
        ELSE [matched |-> FALSE, real |-> <<>>, imag |-> <<>>]

\* s.replace(c, ''): s without the first c.
RECURSIVE RemoveFirst(_, _)
RemoveFirst(s, c) ==
    IF s = <<>> THEN <<>>
    ELSE IF Head(s) = c THEN Tail(s)
    ELSE <<Head(s)>> \o RemoveFirst(Tail(s), c)

\* A complex number as the client sends it.
Point(real, imag) == Obj(<<Prop("real", real), Prop("imag", imag)>>)

\* A variant that reads the imaginary part without its sign.
ParsePart_NoSign(part) ==
    LET match == ComplexMatch(part)
        unsigned == IF match.imag # <<>> /\ Head(match.imag) \in {"+", "-"}
                    THEN Tail(match.imag) ELSE match.imag
        real == IF match.real # <<>> THEN parseFloat(match.real) ELSE Whole(0)
        imag == IF match.imag = <<>> THEN Whole(0)
                ELSE parseFloat(RemoveFirst(unsigned, "j"))
    IN  IF \/ ~match.matched
           \/ (part # <<>> /\ part[Len(part)] \in {"+", "-"})
        THEN NaN
        ELSE Point(real, imag)

\* What parseComplexNumbers makes of one trimmed part: NaN, or {real, imag}.
ParsePart(part) ==
    LET match == ComplexMatch(part)
        real == IF match.real # <<>> THEN parseFloat(match.real) ELSE Whole(0)
        imag == IF match.imag = <<>> THEN Whole(0)
                ELSE IF match.imag \in {<<"j">>, <<"+", "j">>} THEN Whole(1)
                ELSE IF match.imag = <<"-", "j">> THEN Whole(-1)
                ELSE parseFloat(RemoveFirst(match.imag, "j"))
    IN  IF \/ ~match.matched
           \/ (part # <<>> /\ part[Len(part)] \in {"+", "-"})
        THEN NaN
        ELSE Point(real, imag)

\* "Contains an invalid complex number format.  Please use the form a+bj."
InvalidComplexMessage == "baohan wuxiao de fushu geshi, qing shiyong a+bj de xingshi"

\* parseComplexNumbers(input): the list it returns, or the error it throws.
parseComplexNumbers(input) ==
    IF trim(input) = <<>> THEN Resolved(<<>>)
    ELSE LET pieces == split(input, ",")
             complexNumbers == [i \in DOMAIN pieces |-> ParsePart(trim(pieces[i]))]
             invalid(c) ==
                 \/ c = NaN
                 \/ isNaN(Get(c, "real"))
                 \/ isNaN(Get(c, "imag"))
         IN  IF \E i \in DOMAIN complexNumbers : invalid(complexNumbers[i])
             THEN Rejected(Error(InvalidComplexMessage))
             ELSE Resolved(complexNumbers)

(***************************************************************************)
(* FrequencyAnalysis: the form that takes coefficients, turns them into    *)
(* zeros and poles and asks for the frequency-domain analysis              *)
(***************************************************************************)
\* parseCoeffs of FrequencyAnalysis.handleAnalyze: a blank text is [1];
\* otherwise the numbers parseFloat finds, the others dropped.
parseCoeffsOrOne(text) ==
    IF trim(text) = <<>> THEN <<Whole(1)>> ELSE parseCoeffs(text)

\* isZeroArray of _coeffs_to_zeros_poles
isZeroArray(arr) ==
    Len(arr) = 0 \/ (Len(arr) = 1 /\ arr[1] = Whole(0))

\* A complex number as the root finder gives it.
Complex(re, im) == [re |-> re, im |-> im]

\* The number of roots of the polynomial with these coefficients, highest
\* power first: its degree, leading zeros not counted.
RECURSIVE RootCount(_)
RootCount(poly) ==
    IF poly = <<>> THEN 0
    ELSE IF Head(poly) = Whole(0) THEN RootCount(Tail(poly))
    ELSE Len(poly) - 1

\* require('numpy-poly-root')(poly).  The library is not part of the
\* repository: `lib` is what the build has of it, either nothing (the call
\* throws) or a root finder, known here by the root it finds.
LibraryRoots == {Complex(Whole(0), Whole(0)), Complex(Whole(-1), Whole(2))}
Libraries == {[found |-> FALSE]} \cup {[found |-> TRUE, root |-> r] : r \in LibraryRoots}

numpyPolyRoots(lib, poly) ==
    IF ~lib.found THEN Rejected(Error("Cannot find module 'numpy-poly-root'"))
    ELSE Resolved([i \in 1..RootCount(poly) |-> lib.root])

\* "The denominator coefficients cannot all be invalid."
AllInvalidMessage == "fenmu xishu buneng quanbu wuxiao"
\* "The denominator polynomial cannot be zero!"
ZeroDenominatorMessage == "fenmu duoxiangshi buneng wei ling"

\* _coeffs_to_zeros_poles(numCoeffs, denCoeffs): the zeros and the poles, or
\* what it throws.
coeffs_to_zeros_poles(lib, num, den) ==
    LET points(roots) == [i \in DOMAIN roots |-> Point(roots[i].re, roots[i].im)]
        numRoots == numpyPolyRoots(lib, num)
        denRoots == numpyPolyRoots(lib, den)
    IN  IF ~isZeroArray(num) /\ numRoots.state = "rejected" THEN numRoots
        ELSE IF isZeroArray(den) THEN Rejected(Error(ZeroDenominatorMessage))
        ELSE IF denRoots.state = "rejected" THEN denRoots
        ELSE Resolved(
                 [zeros |-> IF isZeroArray(num)
                            THEN <<Point(Whole(0), Whole(0))>>
                            ELSE points(numRoots.value),
                  poles |-> points(denRoots.value)])

\* analyzeFrequencyDomainAPI of FrequencyAnalysis: its request, to a
\* relative URL and with gain 1.0.
localAnalyzeFrequencyDomainAPI_fetch(zeros, poles) ==
    [url |-> "/analyze_frequency_domain",
     method |-> "POST",
     headers |-> Obj(<<Prop("Content-Type", Str("application/json"))>>),
     body |-> JSONstringify(Obj(<<Prop("zeros", Arr(zeros)),
                                  Prop("poles", Arr(poles)),
                                  Prop("gain", Whole(1))>>))]

localAnalyzeFrequencyDomainAPI_settle(fetched) ==
    utilsSettle(fetched, AnalysisFailedMessage)

FaNumeratorTexts == {<<"1">>, <<>>, <<"0">>}
FaPieces == {<<>>, <<"0">>, <<" ", "1">>, <<"a">>}
FaDenominatorTexts == TextsOf(FaPieces, MaxPieces)

\* FrequencyAnalysis.handleAnalyze, on the texts just typed, up to its await
\* or through its catch and finally.  The button is disabled while
\* isLoading.
FaHandleAnalyze ==
    /\ ~isLoading
    /\ \E n \in FaNumeratorTexts, d \in FaDenominatorTexts, lib \in Libraries :
        /\ numCoeffs' = n
        /\ denCoeffs' = d
        /\ faResult' = Null
        /\ LET num == parseCoeffsOrOne(n)
               den == parseCoeffsOrOne(d)
               converted == coeffs_to_zeros_poles(lib, num, den)
               thrown ==
                   IF Len(den) = 0 THEN Rejected(Error(AllInvalidMessage))
                   ELSE converted
           IN  IF thrown.state = "rejected"
               THEN /\ faError' = Str(thrown.reason.message)
                    /\ isLoading' = FALSE
                    /\ faRequests' = <<>>
                    /\ UNCHANGED faPending
               ELSE /\ faError' = Null
                    /\ isLoading' = TRUE
                    /\ faRequests' = <<localAnalyzeFrequencyDomainAPI_fetch(
                                          converted.value.zeros,
                                          converted.value.poles)>>
                    /\ faPending' = faPending + 1

\* The stability margins of a frequency-domain response.
Margins(gm, pm, wg, wp) ==
    Obj(<<Prop("gain_margin_db", gm), Prop("phase_margin_deg", pm),
          Prop("gain_crossover_freq", wg), Prop("phase_crossover_freq", wp)>>)

FrequencyBody(margins, dc) ==
    Obj(<<Prop("bode", Obj(<<
              Prop("omega", Arr(<<Whole(1), Whole(10)>>)),
              Prop("magnitude_db", Arr(<<Whole(0), Whole(-20)>>)),
              Prop("phase_deg", Arr(<<Whole(-45), Whole(-90)>>))>>)),
          Prop("nyquist", Obj(<<
              Prop("real", Arr(<<Whole(1), Whole(0)>>)),
              Prop("imag", Arr(<<Whole(0), Whole(-1)>>))>>)),
          Prop("stability_margins", margins),
          Prop("dc_gain", dc)>>)

\* The bodies of a frequency-domain response: every field a number; margins
\* that do not exist and a DC gain that is not finite (null); every field 0.
FrequencyBodies ==
    {FrequencyBody(Margins(Whole(12), Num(455, 1), Num(15, 1), Whole(3)), Num(5, 1)),
     FrequencyBody(Margins(Null, Null, Null, Null), Null),
     FrequencyBody(Margins(Whole(0), Whole(0), Whole(0), Whole(0)), Whole(0))}

FrequencyFetched ==
    {Resolved([ok |-> TRUE, body |-> JSONstringify(b)]) : b \in FrequencyBodies}
    \cup {Resolved([ok |-> FALSE,
                    body |-> JSONstringify(Obj(<<
                        Prop("detail", Str("No poles"))>>))]),
          Rejected(FailedToFetch)}

\* The rest of FrequencyAnalysis.handleAnalyze, once its fetch has settled.
FaSettle ==
    /\ faPending > 0
    /\ \E fetched \in FrequencyFetched :
        LET outcome == localAnalyzeFrequencyDomainAPI_settle(fetched)
        IN  IF outcome.state = "fulfilled"
            THEN /\ faResult' = outcome.value
                 /\ UNCHANGED faError
            ELSE /\ faError' = Str(outcome.reason.message)
                 /\ UNCHANGED faResult
    /\ isLoading' = FALSE
    /\ faPending' = faPending - 1
    /\ UNCHANGED <<numCoeffs, denCoeffs, faRequests>>

FaInit ==
    /\ numCoeffs = <<"1">>
    /\ denCoeffs = <<"1", ",", " ", "3", ",", " ", "2">>
    /\ faResult = Null
    /\ faError = Null
    /\ isLoading = FALSE
    /\ faRequests = <<>>
    /\ faPending = 0

(***************************************************************************)
(* Properties of FrequencyAnalysis                                         *)
(***************************************************************************)
\* The coefficients typed into the denominator field: the numbers among its
\* tokens.
TypedDenominator == parseCoeffs(denCoeffs)

\* C6, as claimed: once handleAnalyze has run on a denominator that is empty
\* or whose coefficients are all zero, whatever its length, the form shows
\* an error and has sent no request.
C6_DegenerateDenominatorFails ==
    (\A i \in DOMAIN TypedDenominator : TypedDenominator[i] = Whole(0)) =>
        faRequests = <<>> /\ faError # Null

(***************************************************************************)
(* The root locus and the frequency-domain analysis: RootLocusInput,       *)
(* FrequencyDomainInput, HomePage's handlers and the fetch wrappers        *)
(***************************************************************************)
\* The texts typed into a field of poles: nothing, a blank, a comma alone,
\* two complex numbers, and texts that are no numbers.
PoleTexts ==
    {<<>>, <<" ">>, <<",">>,
     <<"-", "1", "+", "2", "j", ",", "2", "j">>,
     <<"-", "1", ",", "a">>, <<".">>}
ZeroTexts == {<<>>, <<"-", "3">>, <<"b">>}
GainTexts == {<<"2">>, <<"0">>, <<"k">>}

\* What is typed into the frequency-domain form: any zeros and poles with
\* the gain 2, or any poles and gain with no zeros.
FrequencyDomainTexts ==
    {<<z, p, <<"2">>>> : z \in ZeroTexts, p \in PoleTexts}
        \cup {<<<<>>, p, k>> : p \in PoleTexts, k \in GainTexts}

\* "At least one pole must be entered."
NoPolesMessage == "bixu zhishao shuru yige jidian"
\* "The gain K must be a valid number."
InvalidGainMessage == "zengyi K bixu shi youxiao de shuzi"
\* The fallback messages of plotRootLocusAPI and analyzeFrequencyDomainAPI
\* ("backend root locus analysis failed", "backend frequency-domain analysis
\* failed").
RootLocusFailedMessage == "houduan genguiji fenxi shibai"
FrequencyFailedMessage == "houduan pinyu fenxi shibai"

plotRootLocusAPI_fetch(zeros, poles) ==
    PostJson("/plot_root_locus",
             Obj(<<Prop("zeros", Arr(zeros)), Prop("poles", Arr(poles))>>))

plotRootLocusAPI_settle(fetched) ==
    utilsSettle(fetched, RootLocusFailedMessage)

\* gain is the text of the field: parseFloat(gain) || 1.0 is sent.
analyzeFrequencyDomainAPI_fetch(zeros, poles, gainText) ==
    PostJson("/analyze_frequency_domain",
             Obj(<<Prop("zeros", Arr(zeros)), Prop("poles", Arr(poles)),
                   Prop("gain", OrElse(parseFloat(gainText), Whole(1)))>>))

analyzeFrequencyDomainAPI_settle(fetched) ==
    utilsSettle(fetched, FrequencyFailedMessage)

\* HomePage.handleRootLocusPlot(zeros, poles) up to its await.  The call
\* becomes the latest of the pending ones, and nothing is shown any more.
handleRootLocusPlot(zeros, poles) ==
    /\ rootLocusError' = Null
    /\ rootLocusResult' = Null
    /\ rootLocusRequests' = <<plotRootLocusAPI_fetch(zeros, poles)>>
    /\ rootLocusPending' = rootLocusPending + 1
    /\ rootLocusInFlight' =
           Append([i \in DOMAIN rootLocusInFlight |-> FALSE], TRUE)
    /\ rootLocusShownOf' = [result |-> "none", error |-> "none"]

\* HomePage.handleFrequencyDomainAnalyze(zeros, poles, gain) up to its await.
handleFrequencyDomainAnalyze(zeros, poles, gainText) ==
    /\ frequencyDomainError' = Null
    /\ frequencyDomainResult' = Null
    /\ frequencyDomainRequests' =
           <<analyzeFrequencyDomainAPI_fetch(zeros, poles, gainText)>>
    /\ frequencyDomainPending' = frequencyDomainPending + 1

\* A variant that does not look at the number of poles.
RootLocusHandleAnalyze_NoCheck ==
    LET parsedZeros == parseComplexNumbers(rlZeros')
        parsedPoles == parseComplexNumbers(rlPoles')
        refused(message) ==
            /\ rlInputError' = Str(message)
            /\ rootLocusRequests' = <<>>
            /\ UNCHANGED <<rootLocusResult, rootLocusError, rootLocusPending,
                           rootLocusInFlight, rootLocusShownOf>>
    IN  IF parsedZeros.state = "rejected"
        THEN refused(parsedZeros.reason.message)
        ELSE IF parsedPoles.state = "rejected"
        THEN refused(parsedPoles.reason.message)
        ELSE /\ rootLocusPending < MaxOverlap
             /\ rlInputError' = Null
             /\ handleRootLocusPlot(parsedZeros.value, parsedPoles.value)

\* RootLocusInput.handleAnalyze, on the texts just typed.
RootLocusHandleAnalyze ==
    LET parsedZeros == parseComplexNumbers(rlZeros')
        parsedPoles == parseComplexNumbers(rlPoles')
        refused(message) ==
            /\ rlInputError' = Str(message)
            /\ rootLocusRequests' = <<>>
            /\ UNCHANGED <<rootLocusResult, rootLocusError, rootLocusPending,
                           rootLocusInFlight, rootLocusShownOf>>
    IN  IF parsedZeros.state = "rejected"
        THEN refused(parsedZeros.reason.message)
        ELSE IF parsedPoles.state = "rejected"
        THEN refused(parsedPoles.reason.message)
        ELSE IF Len(parsedPoles.value) = 0
        THEN refused(NoPolesMessage)
        ELSE /\ rootLocusPending < MaxOverlap
             /\ rlInputError' = Null
             /\ handleRootLocusPlot(parsedZeros.value, parsedPoles.value)

\* The user types zeros and poles and clicks the button.
RootLocusSubmit ==
    /\ mode = "rootLocus"
    /\ \E z \in ZeroTexts, p \in PoleTexts :
        /\ rlZeros' = z
        /\ rlPoles' = p
        /\ RootLocusHandleAnalyze

\* FrequencyDomainInput.handleAnalyze, on the texts just typed.
FrequencyDomainHandleAnalyze ==
    LET parsedZeros == parseComplexNumbers(fdZeros')
        parsedPoles == parseComplexNumbers(fdPoles')
        parsedGain == parseFloat(gain')
        refused(message) ==
            /\ fdInputError' = Str(message)
            /\ frequencyDomainRequests' = <<>>
            /\ UNCHANGED <<frequencyDomainResult, frequencyDomainError,
                           frequencyDomainPending>>
    IN  IF parsedZeros.state = "rejected"
        THEN refused(parsedZeros.reason.message)
        ELSE IF parsedPoles.state = "rejected"
        THEN refused(parsedPoles.reason.message)
        ELSE IF Len(parsedPoles.value) = 0
        THEN refused(NoPolesMessage)
        ELSE IF isNaN(parsedGain)
        THEN refused(InvalidGainMessage)
        ELSE /\ frequencyDomainPending < MaxInFlight
             /\ fdInputError' = Null
             /\ handleFrequencyDomainAnalyze(parsedZeros.value,
                                             parsedPoles.value, gain')

\* The user types zeros, poles and gain and clicks the button.
FrequencyDomainSubmit ==
    /\ mode = "frequencyDomain"
    /\ \E typed \in FrequencyDomainTexts :
        /\ fdZeros' = typed[1]
        /\ fdPoles' = typed[2]
        /\ gain' = typed[3]
        /\ FrequencyDomainHandleAnalyze

\* A point of a root-locus response, with the fields of the contract or with
\* the fields x and y.
Coordinates(x, y) == Obj(<<Prop("x", x), Prop("y", y)>>)

RootLocusBody(pole, breakaway) ==
    Obj(<<Prop("branches", Arr(<<
              Obj(<<Prop("x", Arr(<<Whole(0), Whole(-1)>>)),
                    Prop("y", Arr(<<Whole(0), Whole(1)>>))>>)>>)),
          Prop("zeros", Arr(<<>>)),
          Prop("poles", Arr(<<pole>>)),
          Prop("asymptotes", Obj(<<
              Prop("centroid", Whole(-1)),
              Prop("angles", Arr(<<Whole(60), Whole(180)>>))>>)),
          Prop("breakaway_points", Arr(<<breakaway>>)),
          Prop("imag_axis_crossings", Arr(<<
              Obj(<<Prop("x", Whole(0)), Prop("y", Num(141, 2)),
                    Prop("k", Whole(6))>>)>>)),
          Prop("message", Str("ok"))>>)

RootLocusBodies ==
    {RootLocusBody(Point(Whole(0), Whole(0)), Point(Num(-42, 2), Whole(0))),
     RootLocusBody(Coordinates(Whole(0), Whole(0)),
                   Coordinates(Num(-42, 2), Whole(0)))}

RootLocusFetched ==
    {Resolved([ok |-> TRUE, body |-> JSONstringify(b)]) : b \in RootLocusBodies}
    \cup {Resolved([ok |-> FALSE,
                    body |-> JSONstringify(Obj(<<
                        Prop("detail", Str("No poles"))>>))])}

\* One of the pending fetches settles, in any order, and its call of
\* handleRootLocusPlot resumes.
RootLocusSettle ==
    /\ rootLocusPending > 0
    /\ \E i \in DOMAIN rootLocusInFlight, fetched \in RootLocusFetched :
        LET outcome == plotRootLocusAPI_settle(fetched)
            call == IF rootLocusInFlight[i] THEN "latest" ELSE "superseded"
        IN  /\ IF outcome.state = "fulfilled"
               THEN /\ rootLocusResult' = outcome.value
                    /\ rootLocusShownOf' =
                           [rootLocusShownOf EXCEPT !.result = call]
                    /\ UNCHANGED rootLocusError
               ELSE /\ rootLocusError' = Str(outcome.reason.message)
                    /\ rootLocusShownOf' =
                           [rootLocusShownOf EXCEPT !.error = call]
                    /\ UNCHANGED rootLocusResult
            /\ rootLocusInFlight' =
                   [j \in 1..(Len(rootLocusInFlight) - 1) |->
                       rootLocusInFlight[IF j < i THEN j ELSE j + 1]]
    /\ rootLocusPending' = rootLocusPending - 1
    /\ UNCHANGED <<rlZeros, rlPoles, rlInputError, rootLocusRequests>>

\* A pending fetch settles and handleFrequencyDomainAnalyze resumes.
FrequencyDomainSettle ==
    /\ frequencyDomainPending > 0
    /\ \E fetched \in FrequencyFetched :
        LET outcome == analyzeFrequencyDomainAPI_settle(fetched)
        IN  IF outcome.state = "fulfilled"
            THEN /\ frequencyDomainResult' = outcome.value
                 /\ UNCHANGED frequencyDomainError
            ELSE /\ frequencyDomainError' = Str(outcome.reason.message)
                 /\ UNCHANGED frequencyDomainResult
    /\ frequencyDomainPending' = frequencyDomainPending - 1
    /\ UNCHANGED <<fdZeros, fdPoles, gain, fdInputError,
                   frequencyDomainRequests>>

\* The text '0, -1, -2' both forms start with in their field of poles.
DefaultPoles == <<"0", ",", " ", "-", "1", ",", " ", "-", "2">>

RootLocusInit ==
    /\ rlZeros = <<>>
    /\ rlPoles = DefaultPoles
    /\ rlInputError = Null
    /\ rootLocusResult = Null
    /\ rootLocusError = Null
    /\ rootLocusRequests = <<>>
    /\ rootLocusPending = 0
    /\ rootLocusInFlight = <<>>
    /\ rootLocusShownOf = [result |-> "none", error |-> "none"]

FrequencyDomainInit ==
    /\ fdZeros = <<>>
    /\ fdPoles = DefaultPoles
    /\ gain = <<"1", ".", "0">>
    /\ fdInputError = Null
    /\ frequencyDomainResult = Null
    /\ frequencyDomainError = Null
    /\ frequencyDomainRequests = <<>>
    /\ frequencyDomainPending = 0

(***************************************************************************)
(* HomePage's mode selector                                                *)
(***************************************************************************)
\* A variant of setMode that clears the root-locus result HomePage holds.
setMode_ClearsResult(m) ==
    /\ mode # m
    /\ mode' = m
    /\ riseTime' = <<>>
    /\ peakTime' = <<>>
    /\ maxOvershoot' = <<>>
    /\ settlingTime' = <<>>
    /\ inverseInputError' = Null
    /\ coeffs' = <<>>
    /\ symbolicInputError' = Null
    /\ symbolicRequests' = <<>>
    /\ controlNumerator' = <<>>
    /\ controlDenominator' = <<>>
    /\ controlInputError' = Null
    /\ controlRequests' = <<>>
    /\ rlZeros' = <<>>
    /\ rlPoles' = DefaultPoles
    /\ rlInputError' = Null
    /\ rootLocusRequests' = <<>>
    /\ fdZeros' = <<>>
    /\ fdPoles' = DefaultPoles
    /\ gain' = <<"1", ".", "0">>
    /\ fdInputError' = Null
    /\ frequencyDomainRequests' = <<>>
    /\ numerator' = InitialFields(m).numerator
    /\ denominator' = InitialFields(m).denominator
    /\ desired' = InitialFields(m).desired
    /\ result' = Null
    /\ plotData' = Null
    /\ analysis' = Null
    /\ loading' = FALSE
    /\ error' = Null
    /\ designRequests' = <<>>
    /\ designPending' = 0
    /\ UNCHANGED <<inverseAnalysisResult, inverseAnalysisError,
                   inverseInFlight, inverseSettled>>
    /\ UNCHANGED <<symbolicStabilityResult, symbolicStabilityError,
                   symbolicPending>>
    /\ UNCHANGED <<controlAnalysisResult, controlAnalysisError,
                   controlPending>>
    /\ rootLocusResult' = Null
    /\ UNCHANGED <<rootLocusError, rootLocusPending, rootLocusInFlight,
                   rootLocusShownOf>>
    /\ UNCHANGED <<frequencyDomainResult, frequencyDomainError,
                   frequencyDomainPending>>
    /\ UNCHANGED faVars
    /\ UNCHANGED clientVars
    /\ UNCHANGED rangeVars
    /\ UNCHANGED traceVars
    /\ UNCHANGED parsingVars
    /\ UNCHANGED lagVars
    /\ UNCHANGED engineVars
    /\ UNCHANGED apiVars

\* setMode(m), from a button of the mode selector: the form shown is
\* unmounted and the one of mode m is mounted, with the state it starts
\* with.  A form that is not shown is kept as it will start.  What HomePage
\* holds (results, errors, its pending calls) stays; what the pending fetches
\* of an unmounted design component bring is dropped with it.
setMode(m) ==
    /\ mode # m
    /\ mode' = m
    /\ riseTime' = <<>>
    /\ peakTime' = <<>>
    /\ maxOvershoot' = <<>>
    /\ settlingTime' = <<>>
    /\ inverseInputError' = Null
    /\ coeffs' = <<>>
    /\ symbolicInputError' = Null
    /\ symbolicRequests' = <<>>
    /\ controlNumerator' = <<>>
    /\ controlDenominator' = <<>>
    /\ controlInputError' = Null
    /\ controlRequests' = <<>>
    /\ rlZeros' = <<>>
    /\ rlPoles' = DefaultPoles
    /\ rlInputError' = Null
    /\ rootLocusRequests' = <<>>
    /\ fdZeros' = <<>>
    /\ fdPoles' = DefaultPoles
    /\ gain' = <<"1", ".", "0">>
    /\ fdInputError' = Null
    /\ frequencyDomainRequests' = <<>>
    /\ numerator' = InitialFields(m).numerator
    /\ denominator' = InitialFields(m).denominator
    /\ desired' = InitialFields(m).desired
    /\ result' = Null
    /\ plotData' = Null
    /\ analysis' = Null
    /\ loading' = FALSE
    /\ error' = Null
    /\ designRequests' = <<>>
    /\ designPending' = 0
    /\ UNCHANGED <<inverseAnalysisResult, inverseAnalysisError,
                   inverseInFlight, inverseSettled>>
    /\ UNCHANGED <<symbolicStabilityResult, symbolicStabilityError,
                   symbolicPending>>
    /\ UNCHANGED <<controlAnalysisResult, controlAnalysisError,
                   controlPending>>
    /\ UNCHANGED <<rootLocusResult, rootLocusError, rootLocusPending,
                   rootLocusInFlight, rootLocusShownOf>>
    /\ UNCHANGED <<frequencyDomainResult, frequencyDomainError,
                   frequencyDomainPending>>
    /\ UNCHANGED faVars
    /\ UNCHANGED clientVars
    /\ UNCHANGED rangeVars
    /\ UNCHANGED traceVars
    /\ UNCHANGED parsingVars
    /\ UNCHANGED lagVars
    /\ UNCHANGED engineVars
    /\ UNCHANGED apiVars

\* The modes each specification moves between.
InverseSetMode == \E m \in {"lagCompensation", "inverseAnalysis"} : setMode(m)
SymbolicSetMode == \E m \in {"lagCompensation", "symbolicStability"} : setMode(m)
ControlSetMode == \E m \in {"lagCompensation", "controlSystem"} : setMode(m)
DesignSetMode == \E m \in DesignModes : setMode(m)
PolesSetMode == \E m \in {"rootLocus", "frequencyDomain"} : setMode(m)

HomeInit == mode = "lagCompensation"

(***************************************************************************)
(* What the result views show of numbers and points                        *)
(***************************************************************************)
RECURSIVE Pow10(_)
Pow10(n) == IF n = 0 THEN 1 ELSE 10 * Pow10(n - 1)

\* v.toFixed(digits) of a number: the decimal with exactly that many
\* fraction digits, the nearest one, a tie going away from zero.
toFixed(v, digits) ==
    LET scale == IF v.e > digits THEN Pow10(v.e - digits) ELSE 1
        mag == IF v.m < 0 THEN 0 - v.m ELSE v.m
        rounded == IF v.e <= digits THEN mag * Pow10(digits - v.e)
                   ELSE (2 * mag + scale) \div (2 * scale)
    IN  [t |-> "fixed", negative |-> v.m < 0 /\ rounded # 0,
         digits |-> rounded, fraction |-> digits]

\* The TypeError of reading toFixed of undefined or null.
CannotReadToFixed ==
    [name |-> "TypeError",
     message |-> "Cannot read properties of undefined (reading 'toFixed')"]

\* RootLocusResult, the list of breakaway points: an item (p.x.toFixed(3),
\* p.y.toFixed(3)) for every point, or the TypeError that ends the render.
\* No list without breakaway_points.
BreakawayItems(locus) ==
    LET points == Get(locus, "breakaway_points")
        item(p) == <<toFixed(Get(p, "x"), 3), toFixed(Get(p, "y"), 3)>>
    IN  IF ~Truthy(points) THEN Resolved(<<>>)
        ELSE IF \E i \in DOMAIN points.items :
                    \/ Get(points.items[i], "x").t # "num"
                    \/ Get(points.items[i], "y").t # "num"
        THEN Rejected(CannotReadToFixed)
        ELSE Resolved([i \in DOMAIN points.items |-> item(points.items[i])])

\* RootLocusResult, the coordinates its plot takes of the poles, the zeros
\* and the breakaway points of the result: p.x and p.y of every point.
PlottedPoints(locus) ==
    LET coordinates(list) ==
            IF ~Truthy(list) THEN <<>>
            ELSE [i \in DOMAIN list.items |->
                     <<Get(list.items[i], "x"), Get(list.items[i], "y")>>]
    IN  coordinates(Get(locus, "poles"))
            \o coordinates(Get(locus, "zeros"))
            \o coordinates(Get(locus, "breakaway_points"))

(***************************************************************************)
(* Properties of the forms of zeros and poles                              *)
(***************************************************************************)
\* The zeros and the poles of the request the last click sent.
SentList(requests, key) ==
    IF requests = <<>> THEN <<>>
    ELSE Get(JSONparse(requests[1].body), key).items

NoPoles(text) == parseComplexNumbers(text) = Resolved(<<>>)

\* C7: neither the root-locus form nor the frequency-domain form sends a
\* request whose list of poles is empty; while the text of the poles parses
\* to no poles the form shows an error and has sent nothing, and the click
\* on such a text calls nothing of HomePage: no call is added and its result
\* and error stay.
C7_NeverNoPoles ==
    /\ [](/\ rootLocusRequests # <<>> =>
                Len(SentList(rootLocusRequests, "poles")) >= 1
          /\ frequencyDomainRequests # <<>> =>
                Len(SentList(frequencyDomainRequests, "poles")) >= 1
          /\ NoPoles(rlPoles) =>
                /\ rootLocusRequests = <<>>
                /\ rlInputError # Null
                /\ parseComplexNumbers(rlZeros).state = "fulfilled" =>
                       rlInputError = Str(NoPolesMessage)
          /\ NoPoles(fdPoles) =>
                /\ frequencyDomainRequests = <<>>
                /\ fdInputError # Null
                /\ parseComplexNumbers(fdZeros).state = "fulfilled" =>
                       fdInputError = Str(NoPolesMessage))
    /\ [][(RootLocusSubmit /\ NoPoles(rlPoles')) =>
             UNCHANGED <<rootLocusResult, rootLocusError, rootLocusPending>>]_vars
    /\ [][(FrequencyDomainSubmit /\ NoPoles(fdPoles')) =>
             UNCHANGED <<frequencyDomainResult, frequencyDomainError,
                         frequencyDomainPending>>]_vars

\* C7's case: a root locus and a frequency-domain analysis have been asked
\* for and are pending; then the frequency-domain form was given a blank
\* text of poles and has refused it.
C7_Witness ==
    /\ mode = "frequencyDomain"
    /\ rootLocusPending = 1
    /\ frequencyDomainPending = 1
    /\ fdPoles = <<" ">>
    /\ fdInputError = Str(NoPolesMessage)
    /\ frequencyDomainRequests = <<>>

\* C9, as claimed: every zero and pole sent is a record of exactly the
\* numbers real and imag, and the points of a response, given as records of
\* real and imag, are read through these fields: the plot takes real and
\* imag as the coordinates of every pole, zero and breakaway point, and the
\* list of breakaway points shows them.
C9_RealImagPoints ==
    /\ \A sent \in {SentList(rootLocusRequests, "zeros"),
                    SentList(rootLocusRequests, "poles"),
                    SentList(frequencyDomainRequests, "zeros"),
                    SentList(frequencyDomainRequests, "poles")} :
          \A i \in DOMAIN sent :
              /\ Keys(sent[i]) = {"real", "imag"}
              /\ Get(sent[i], "real").t = "num"
              /\ Get(sent[i], "imag").t = "num"
    /\ rootLocusResult # Null =>
          LET points == Get(rootLocusResult, "breakaway_points").items
          IN  (\A i \in DOMAIN points : Keys(points[i]) = {"real", "imag"}) =>
                  /\ BreakawayItems(rootLocusResult) =
                         Resolved([i \in DOMAIN points |->
                             <<toFixed(Get(points[i], "real"), 3),
                               toFixed(Get(points[i], "imag"), 3)>>])
                  /\ \A i \in DOMAIN PlottedPoints(rootLocusResult) :
                         PlottedPoints(rootLocusResult)[i][1].t = "num"

(***************************************************************************)
(* What LagCompensation and LeadCompensation show of a result              *)
(***************************************************************************)
\* value != null
NotNullish(value) == value.t \notin {"null", "undefined"}

\* acc?.[part]
OptionalGet(acc, part) ==
    IF acc.t = "obj" THEN Get(acc, part) ELSE Undefined

\* The cell of the performance table for result.performance[side][field]:
\* (value != null ? value.toFixed(2) : 'N/A'), its suffix left out.
TableCell(designResult, side, field) ==
    LET value == OptionalGet(OptionalGet(Get(designResult, "performance"), side),
                             field)
    IN  IF NotNullish(value) THEN toFixed(value, 2) ELSE Str("N/A")

\* The fields the table of LagCompensation shows of either side, and those
\* of LeadCompensation.
LagTableFields ==
    {"kv", "phase_margin", "gain_margin_db", "gain_crossover_freq",
     "phase_crossover_freq"}
LeadTableFields == LagTableFields \ {"kv"}

\* The annotations the effect of a design component pushes for one side of
\* the performance (before or after): which field each one shows and its
\* text, the markup left out.
SideAnnotations(performance, side) ==
    LET record == Get(performance, side)
        wg == OptionalGet(record, "gain_crossover_freq")
        wp == OptionalGet(record, "phase_crossover_freq")
        pm == OptionalGet(record, "phase_margin")
        gm == OptionalGet(record, "gain_margin_db")
    IN  (IF Truthy(record) /\ Truthy(wg)
         THEN <<[side |-> side, field |-> "gain_crossover_freq",
                 text |-> toFixed(wg, 2)],
                [side |-> side, field |-> "phase_margin",
                 text |-> IF NotNullish(pm) THEN toFixed(pm, 2)
                          ELSE Str("N/A")]>>
         ELSE <<>>)
        \o (IF Truthy(record) /\ Truthy(wp) /\ NotNullish(gm)
            THEN <<[side |-> side, field |-> "gain_margin_db",
                    text |-> toFixed(gm, 2)]>>
            ELSE <<>>)

\* bodeAnnotations of the effect: nothing without plots and performance.
bodeAnnotations(designResult) ==
    IF ~(Truthy(OptionalGet(designResult, "plots"))
             /\ Truthy(OptionalGet(designResult, "performance")))
    THEN <<>>
    ELSE SideAnnotations(Get(designResult, "performance"), "before")
             \o SideAnnotations(Get(designResult, "performance"), "after")

(***************************************************************************)
(* Properties of the numbers shown                                         *)
(***************************************************************************)
\* The texts the annotations show of a field of one side.
Annotated(side, field) ==
    {bodeAnnotations(result)[i].text :
        i \in {j \in DOMAIN bodeAnnotations(result) :
                  /\ bodeAnnotations(result)[j].side = side
                  /\ bodeAnnotations(result)[j].field = field}}

\* C10, as claimed, of the result of a lag or lead design: what the table
\* and the annotations show of a field of the performance is the
\* placeholder N/A if and only if the field is null, and the number, 0
\* included, otherwise.
C10_PlaceholderIffNull ==
    (mode \in {"lagCompensation", "leadCompensation"} /\ result # Null) =>
        \A side \in {"before", "after"} :
            LET record == Get(Get(result, "performance"), side)
                shown(value) ==
                    IF value = Null THEN Str("N/A") ELSE toFixed(value, 2)
            IN  /\ \A field \in (IF mode = "lagCompensation"
                                 THEN LagTableFields ELSE LeadTableFields) :
                       TableCell(result, side, field) = shown(Get(record, field))
                /\ \A field \in {"gain_crossover_freq", "phase_margin",
                                 "gain_margin_db"} :
                       Annotated(side, field) = {shown(Get(record, field))}

(***************************************************************************)
(* ControlSystemAnalysis: what it shows of the forward analysis's result   *)
(***************************************************************************)
\* String(v) of an item of an array that is joined: null and undefined give
\* the empty string, an object "[object Object]".
StringOf(v) ==
    CASE v.t = "str" -> v.s
      [] v.t \in {"null", "undefined"} -> ""
      [] v.t = "num" /\ v.e = 0 -> ToString(v.m)
      [] v.t = "obj" -> "[object Object]"

\* items.join(sep)
RECURSIVE join(_, _)
join(items, sep) ==
    IF items = <<>> THEN ""
    ELSE IF Len(items) = 1 THEN StringOf(items[1])
    ELSE StringOf(items[1]) \o sep \o join(Tail(items), sep)

\* The five metrics of the list, in the order shown.
MetricFields ==
    <<"rise_time", "peak_time", "max_overshoot", "settling_time_2_percent",
      "settling_time_5_percent">>

\* "No time-domain metrics."
NoMetricsText == "wu shiyu zhibiao shuju"

\* The TypeError of reading a property of null or undefined.
CannotReadProperty ==
    [name |-> "TypeError", message |-> "Cannot read properties of null"]

\* A variant whose list of metrics is rendered without testing metrics.
ControlSystemAnalysis_NoTest(analysisResult) ==
    IF ~Truthy(analysisResult) THEN Resolved([card |-> "none"])
    ELSE LET metrics == Get(analysisResult, "metrics")
             stability == Get(analysisResult, "stability")
         IN  IF stability.t # "obj" \/ Get(stability, "poles").t # "arr"
                   \/ metrics.t \in {"null", "undefined"}
             THEN Rejected(CannotReadProperty)
             ELSE Resolved(
                    [card |-> "result",
                     status |-> Get(stability, "status"),
                     poles |-> join(Get(stability, "poles").items, ", "),
                     metricsRead |-> {MetricFields[i] : i \in DOMAIN MetricFields},
                     metrics |-> [i \in DOMAIN MetricFields |->
                                     OptionalGet(metrics, MetricFields[i])],
                     text |-> ""])

\* ControlSystemAnalysis({analysisResult}): what the card shows and which
\* fields of metrics the render read, or the TypeError that ends the render.
ControlSystemAnalysis(analysisResult) ==
    IF ~Truthy(analysisResult) THEN Resolved([card |-> "none"])
    ELSE LET metrics == Get(analysisResult, "metrics")
             stability == Get(analysisResult, "stability")
         IN  IF stability.t # "obj" \/ Get(stability, "poles").t # "arr"
             THEN Rejected(CannotReadProperty)
             ELSE Resolved(
                    [card |-> "result",
                     status |-> Get(stability, "status"),
                     poles |-> join(Get(stability, "poles").items, ", "),
                     metricsRead |->
                         IF Truthy(metrics)
                         THEN {MetricFields[i] : i \in DOMAIN MetricFields}
                         ELSE {},
                     metrics |->
                         IF Truthy(metrics)
                         THEN [i \in DOMAIN MetricFields |->
                                  OptionalGet(metrics, MetricFields[i])]
                         ELSE <<>>,
                     text |-> IF Truthy(metrics) THEN "" ELSE NoMetricsText])

\* C11: while the result of the forward analysis has metrics null, the card
\* shows the status and the poles of its stability, shows no metric value
\* but the text that there is none, reads no field of metrics and its
\* render does not throw.
C11_NullMetrics ==
    (controlAnalysisResult # Null
        /\ Get(controlAnalysisResult, "metrics") = Null) =>
        LET view == ControlSystemAnalysis(controlAnalysisResult)
            stability == Get(controlAnalysisResult, "stability")
        IN  /\ view.state = "fulfilled"
            /\ view.value.card = "result"
            /\ view.value.status = Get(stability, "status")
            /\ view.value.poles = join(Get(stability, "poles").items, ", ")
            /\ view.value.metrics = <<>>
            /\ view.value.metricsRead = {}
            /\ view.value.text = NoMetricsText

\* An unstable system's result, without metrics, is shown with its poles.
C11_Witness ==
    /\ mode = "controlSystem"
    /\ controlAnalysisResult # Null
    /\ Get(controlAnalysisResult, "metrics") = Null
    /\ ControlSystemAnalysis(controlAnalysisResult).state = "fulfilled"
    /\ ControlSystemAnalysis(controlAnalysisResult).value.status = Str("unstable")
    /\ ControlSystemAnalysis(controlAnalysisResult).value.poles = "1+2j, 1-2j"

(***************************************************************************)
(* Properties of a failed design                                           *)
(***************************************************************************)
\* C12: in the lead and the lag design form an error is never shown
\* together with a result: while the error is set the result is null; and
\* the step that ends a design request leaves loading reset and either the
\* error of the failure with no result, or the result with no error.
C12_NoResultWithError ==
    /\ [](mode \in {"lagCompensation", "leadCompensation"} =>
             (error # Null => result = Null))
    /\ [][(/\ mode \in {"lagCompensation", "leadCompensation"}
           /\ mode' = mode
           /\ designPending' = designPending - 1) =>
              /\ ~loading'
              /\ \/ error' # Null /\ result' = Null
                 \/ error' = Null /\ result' # Null]_vars

\* A lead design request was sent and has failed: its error is shown.
C12_Witness ==
    /\ mode = "leadCompensation"
    /\ designRequests # <<>>
    /\ designPending = 0
    /\ ~loading
    /\ error = Str("System is unstable")
    /\ result = Null

(***************************************************************************)
(* Properties of the requests sent                                         *)
(***************************************************************************)
\* The click of a form that may send a request.
SubmitStep(part) ==
    CASE part = "control" -> ControlSubmit
      [] part = "design" ->
             LagHandleDesign \/ LeadHandleDesign \/ PhaseHandleAnalyze
      [] part = "symbolic" -> SymbolicSubmit
      [] part = "rootLocus" -> RootLocusSubmit
      [] part = "frequencyDomain" -> FrequencyDomainSubmit
      [] part = "frequencyAnalysis" -> FaHandleAnalyze

\* The requests sent since the last click of a form, and its pending calls.
SentOf(part) ==
    CASE part = "control" -> <<controlRequests, controlPending>>
      [] part = "design" -> <<designRequests, designPending>>
      [] part = "symbolic" -> <<symbolicRequests, symbolicPending>>
      [] part = "rootLocus" -> <<rootLocusRequests, rootLocusPending>>
      [] part = "frequencyDomain" ->
             <<frequencyDomainRequests, frequencyDomainPending>>
      [] part = "frequencyAnalysis" -> <<faRequests, faPending>>

\* The error a form shows of a failed request.
FailureOf(part) ==
    CASE part = "control" -> controlAnalysisError
      [] part = "design" -> error
      [] part = "symbolic" -> symbolicStabilityError
      [] part = "rootLocus" -> rootLocusError
      [] part = "frequencyDomain" -> frequencyDomainError
      [] part = "frequencyAnalysis" -> faError

Parts ==
    {"control", "design", "symbolic", "rootLocus", "frequencyDomain",
     "frequencyAnalysis"}

\* C13: a click of a form sends at most one request; a request is sent, and
\* a call becomes pending, only in the step of a click; and the step in
\* which a pending call ends, with a failure or not, sends nothing.
C13_NeverRetried ==
    /\ [](\A part \in Parts : Len(SentOf(part)[1]) <= 1)
    /\ [][\A part \in Parts :
            /\ SentOf(part)[2]' <= SentOf(part)[2] + 1
            /\ (\/ SentOf(part)[2]' > SentOf(part)[2]
                \/ SentOf(part)[1]' \notin {SentOf(part)[1], <<>>}) =>
                   SubmitStep(part)
            /\ (SentOf(part)[2]' < SentOf(part)[2] /\ mode' = mode) =>
                   /\ SentOf(part)[1]' = SentOf(part)[1]
                   /\ SentOf(part)[2]' = SentOf(part)[2] - 1]_vars
    /\ [][\A i \in DOMAIN inverseInFlight' :
             \/ i \in DOMAIN inverseInFlight
             \/ InverseClick /\ i = Len(inverseInFlight) + 1]_vars

\* A forward analysis has failed and then a design has failed: both errors
\* are held, one request was sent for the design, and no call is pending.
C13_Witness ==
    /\ mode = "lagCompensation"
    /\ controlAnalysisError = Str("Denominator is zero")
    /\ controlPending = 0
    /\ error = Str("System is unstable")
    /\ Len(designRequests) = 1
    /\ designPending = 0

(***************************************************************************)
(* services/api.js: the nine functions                                     *)
(***************************************************************************)
analyzeTransferFunction_fetch(data) == PostJson("/analyze_tf", data)

analyzeStabilityRange_fetch(data) == PostJson("/analyze_stability_range", data)

plotRootLocus_fetch(data) == PostJson("/plot_root_locus", data)

analyzeFrequencyDomain_fetch(data) == PostJson("/analyze_frequency_domain", data)

\* A variant that posts to the endpoint of the lag design.
designLagLead_ToLag(data) ==
    PostJson("/compensation/design_lag_compensator", data)

designLagLeadCompensator_fetch(data) ==
    PostJson("/compensation/design_lag_lead_compensator", data)

ApiFunctions ==
    {"analyzeTransferFunction", "inverseAnalyzeTf", "analyzeStabilityRange",
     "plotRootLocus", "analyzeFrequencyDomain", "plotPhasePortrait",
     "designLeadCompensator", "designLagCompensator",
     "designLagLeadCompensator"}

\* The fetches a call of a function of api.js makes: apiRequest calls fetch
\* once, with the URL and the options the function built.
apiRequest_fetches(name, data) ==
    << CASE name = "analyzeTransferFunction" -> analyzeTransferFunction_fetch(data)
         [] name = "inverseAnalyzeTf" -> inverseAnalyzeTf_fetch(data)
         [] name = "analyzeStabilityRange" -> analyzeStabilityRange_fetch(data)
         [] name = "plotRootLocus" -> plotRootLocus_fetch(data)
         [] name = "analyzeFrequencyDomain" -> analyzeFrequencyDomain_fetch(data)
         [] name = "plotPhasePortrait" -> plotPhasePortrait_fetch(data)
         [] name = "designLeadCompensator" -> designLeadCompensator_fetch(data)
         [] name = "designLagCompensator" -> designLagCompensator_fetch(data)
         [] name = "designLagLeadCompensator" ->
                designLagLeadCompensator_fetch(data) >>

\* Arguments: coefficient lists with or without a target (one of them not a
\* number, one left undefined), coefficient strings, zeros and poles, and
\* metrics.
ApiArguments ==
    {Obj(<<Prop("numerator", n), Prop("denominator", d)>> \o target) :
        n \in {Arr(<<Whole(1)>>), Arr(<<>>)},
        d \in {Arr(<<Whole(1), Whole(3), Whole(2)>>), Arr(<<Num(5, 1)>>)},
        target \in {<<>>, <<Prop("desired_kv", Whole(10))>>,
                    <<Prop("desired_phase_margin", NaN)>>,
                    <<Prop("desired_kv", Undefined),
                      Prop("desired_phase_margin", Whole(45))>>}}
    \cup {Obj(<<Prop("denominator_coeffs", Arr(<<Str("1"), Str("x")>>))>>),
          Obj(<<Prop("zeros", Arr(<<>>)),
                Prop("poles", Arr(<<Point(Whole(0), Whole(-1))>>)),
                Prop("gain", Whole(2))>>),
          Obj(<<Prop("rise_time", Num(12, 1))>>)}

\* A caller calls one of the functions.
ApiCall ==
    \E name \in ApiFunctions, data \in ApiArguments :
        /\ apiFunction' = name
        /\ apiData' = data
        /\ apiFetches' = apiRequest_fetches(name, data)

ApiInit ==
    /\ apiFunction = "none"
    /\ apiData = Null
    /\ apiFetches = <<>>

\* The endpoint the contract names for a function of api.js.
ContractEndpoint(name) ==
    CASE name = "analyzeTransferFunction" -> "analyze_tf"
      [] name = "inverseAnalyzeTf" -> "inverse_analyze_tf"
      [] name = "analyzeStabilityRange" -> "analyze_stability_range"
      [] name = "plotRootLocus" -> "plot_root_locus"
      [] name = "analyzeFrequencyDomain" -> "analyze_frequency_domain"
      [] name = "plotPhasePortrait" -> "analysis/plot_phase_portrait"
      [] name = "designLeadCompensator" -> "compensation/design_lead_compensator"
      [] name = "designLagCompensator" -> "compensation/design_lag_compensator"
      [] name = "designLagLeadCompensator" ->
             "compensation/design_lag_lead_compensator"

\* C14: a call of a function of api.js makes exactly one fetch: a POST to
\* the endpoint the contract names for the function, with the one header
\* Content-Type: application/json and the JSON text of the argument as its
\* body.
C14_ApiRequests ==
    apiFunction # "none" =>
        /\ Len(apiFetches) = 1
        /\ apiFetches[1].url
               = "http://localhost:8000/" \o ContractEndpoint(apiFunction)
        /\ apiFetches[1].method = "POST"
        /\ apiFetches[1].headers
               = Obj(<<Prop("Content-Type", Str("application/json"))>>)
        /\ apiFetches[1].body = JSONstringify(apiData)

\* The lag-lead design was called with both targets.
C14_Witness ==
    /\ apiFunction = "designLagLeadCompensator"
    /\ Len(apiFetches) = 1
    /\ Keys(apiData) = {"numerator", "denominator", "desired_kv",
                        "desired_phase_margin"}

(***************************************************************************)
(* The analysis engine: polynomials and their roots                        *)
(***************************************************************************)
\* How many factors a denominator given to the engine is the product of.
MaxFactors == 2

\* Exact fractions, reduced, the sign in the numerator.
RECURSIVE GCD(_, _)
GCD(a, b) == IF b = 0 THEN a ELSE GCD(b, a % b)

Abs(n) == IF n < 0 THEN 0 - n ELSE n

Rat(n, d) ==
    LET g == GCD(Abs(n), Abs(d))
        s == IF d < 0 THEN 0 - 1 ELSE 1
    IN  [n |-> (s * n) \div g, d |-> (s * d) \div g]

Q(n) == Rat(n, 1)
RatSub(a, b) == Rat(a.n * b.d - b.n * a.d, a.d * b.d)
RatMul(a, b) == Rat(a.n * b.n, a.d * b.d)
RatDiv(a, b) == Rat(a.n * b.d, a.d * b.n)
Sign(a) == IF a.n > 0 THEN 1 ELSE IF a.n < 0 THEN 0 - 1 ELSE 0

\* The product of two polynomials, coefficients highest degree first.
RECURSIVE SumTo(_, _)
SumTo(f, n) == IF n = 0 THEN 0 ELSE f[n] + SumTo(f, n - 1)

PolyMul(p, q) ==
    [k \in 1..(Len(p) + Len(q) - 1) |->
        SumTo([i \in 1..Len(p) |->
                  IF k + 1 - i \in 1..Len(q) THEN p[i] * q[k + 1 - i] ELSE 0],
              Len(p))]

RECURSIVE PolyProduct(_)
PolyProduct(factors) ==
    IF Len(factors) = 1 THEN factors[1]
    ELSE PolyMul(factors[1], PolyProduct(Tail(factors)))

\* A ComplexPoint: the real part, and the imaginary part by its sign and its
\* square (the roots of s^2 + 2s + 3 are -1 +- j sqrt 2).
ComplexPoint(real, imagSign, imagSquared) ==
    [real |-> real, imagSign |-> imagSign, imagSquared |-> imagSquared]

\* The factors denominators are built of: of degree 1, and of degree 2 with
\* a discriminant that is negative or a square.
Factors ==
    {<<1, 1>>, <<1, 2>>, <<1, -1>>, <<1, 0>>, <<-1, -1>>,
     <<1, 2, 3>>, <<1, -1, 2>>, <<1, 1, 1>>, <<1, 0, 1>>, <<1, -2, -3>>,
     <<1, 3, 2>>, <<1, -3, 2>>, <<1, 1, 0>>, <<1, 0, 0>>}

ISqrt(n) == CHOOSE r \in 0..n : r * r = n

\* Root finding on a factor: the root of a s + b; the two roots of
\* a s^2 + b s + c, a repeated root twice and a conjugate pair as a pair.
FactorRoots(f) ==
    IF Len(f) = 2 THEN <<ComplexPoint(Rat(0 - f[2], f[1]), 0, Q(0))>>
    ELSE LET a == f[1]
             b == f[2]
             c == f[3]
             D == b * b - 4 * a * c
         IN  IF D < 0
             THEN <<ComplexPoint(Rat(0 - b, 2 * a), 1, Rat(0 - D, 4 * a * a)),
                    ComplexPoint(Rat(0 - b, 2 * a), 0 - 1, Rat(0 - D, 4 * a * a))>>
             ELSE <<ComplexPoint(Rat(ISqrt(D) - b, 2 * a), 0, Q(0)),
                    ComplexPoint(Rat(0 - ISqrt(D) - b, 2 * a), 0, Q(0))>>

\* The roots of the product of the factors.
RECURSIVE Roots(_)
Roots(factors) ==
    IF factors = <<>> THEN <<>>
    ELSE FactorRoots(factors[1]) \o Roots(Tail(factors))

(***************************************************************************)
(* The analysis engine: the Routh array of a numeric denominator           *)
(***************************************************************************)
\* The width of the rows, and rows 0 and 1: the coefficients of even index
\* and those of odd index, filled with 0.
RouthWidth(den) == (Len(den) + 1) \div 2

RouthRow0(den) == [i \in 1..RouthWidth(den) |-> Q(den[2 * i - 1])]

RouthRow1(den) ==
    [i \in 1..RouthWidth(den) |->
        IF 2 * i <= Len(den) THEN Q(den[2 * i]) ELSE Q(0)]

At(row, i) == IF i \in DOMAIN row THEN row[i] ELSE Q(0)

\* A variant of the recurrence with the two products exchanged.
RouthNextRow_Exchanged(p, q) ==
    [i \in DOMAIN q |->
        RatDiv(RatSub(RatMul(p[1], At(q, i + 1)), RatMul(q[1], At(p, i + 1))),
               q[1])]

\* The row after rows p and q, by the determinant recurrence:
\* (q[1] p[i+1] - p[1] q[i+1]) / q[1].
RouthNextRow(p, q) ==
    [i \in DOMAIN q |->
        RatDiv(RatSub(RatMul(q[1], At(p, i + 1)), RatMul(p[1], At(q, i + 1))),
               q[1])]

\* The rows of the array, order + 1 of them, as far as the recurrence goes:
\* it stops at a row whose first entry is 0.
RECURSIVE RouthRows(_, _)
RouthRows(rows, count) ==
    IF Len(rows) >= count \/ rows[Len(rows)][1] = Q(0) THEN rows
    ELSE RouthRows(Append(rows, RouthNextRow(rows[Len(rows) - 1],
                                             rows[Len(rows)])),
                   count)

RouthArray(den) == RouthRows(<<RouthRow0(den), RouthRow1(den)>>, Len(den))

FirstColumn(rows) == [i \in DOMAIN rows |-> rows[i][1]]

\* A variant that counts the entries whose sign is not that of the first.
SignChanges_FromFirst(column) ==
    Cardinality({i \in DOMAIN column : Sign(column[i]) # Sign(column[1])})

\* The number of sign changes down a column.
SignChanges(column) ==
    Cardinality({i \in 1..(Len(column) - 1) :
                    Sign(column[i]) # Sign(column[i + 1])})

\* The Routh analysis of a numeric denominator.  A zero in the first column
\* makes the case a boundary case, which is reported as such.
RouthAnalysis(den) ==
    LET rows == RouthArray(den)
        column == FirstColumn(rows)
        boundary == \E i \in DOMAIN column : column[i] = Q(0)
    IN  [rows |-> rows,
         firstColumn |-> column,
         boundary |-> boundary,
         signChanges |-> SignChanges(column),
         verdict |-> IF boundary THEN "marginal"
                     ELSE IF SignChanges(column) = 0 THEN "stable"
                     ELSE "unstable"]

(***************************************************************************)
(* The analysis engine: stability status and equilibrium classification    *)
(***************************************************************************)
Statuses == {"stable", "marginal", "unstable"}

\* A variant whose rule for stable lets a zero real part through.
StatusApplies_NotStrict(status, roots) ==
    CASE status = "stable" -> \A i \in DOMAIN roots : Sign(roots[i].real) <= 0
      [] status = "marginal" -> \E i \in DOMAIN roots : Sign(roots[i].real) = 0
      [] status = "unstable" -> \E i \in DOMAIN roots : Sign(roots[i].real) > 0

\* The three rules of the forward analysis: all real parts strictly
\* negative, any real part zero, any real part positive.
StatusApplies(status, roots) ==
    CASE status = "stable" -> \A i \in DOMAIN roots : Sign(roots[i].real) < 0
      [] status = "marginal" -> \E i \in DOMAIN roots : Sign(roots[i].real) = 0
      [] status = "unstable" -> \E i \in DOMAIN roots : Sign(roots[i].real) > 0

ApplicableStatuses(roots) == {s \in Statuses : StatusApplies(s, roots)}

EquilibriumTags ==
    {"stable node", "unstable node", "saddle", "stable focus",
     "unstable focus", "center"}

\* A variant whose rules for the nodes let a zero eigenvalue through.
TagApplies_NotStrict(tag, e) ==
    LET bothReal == e[1].imagSign = 0 /\ e[2].imagSign = 0
        complex == e[1].imagSign # 0 /\ e[2].imagSign # 0
    IN  CASE tag = "stable node" ->
                 bothReal /\ Sign(e[1].real) <= 0 /\ Sign(e[2].real) <= 0
          [] tag = "unstable node" ->
                 bothReal /\ Sign(e[1].real) >= 0 /\ Sign(e[2].real) >= 0
          [] tag = "saddle" ->
                 bothReal /\ Sign(e[1].real) * Sign(e[2].real) < 0
          [] tag = "stable focus" -> complex /\ Sign(e[1].real) < 0
          [] tag = "unstable focus" -> complex /\ Sign(e[1].real) > 0
          [] tag = "center" -> complex /\ Sign(e[1].real) = 0

\* The six rules of the phase portrait engine on the two eigenvalues of the
\* state matrix in companion form, which are the roots of the denominator.
TagApplies(tag, e) ==
    LET bothReal == e[1].imagSign = 0 /\ e[2].imagSign = 0
        complex == e[1].imagSign # 0 /\ e[2].imagSign # 0
    IN  CASE tag = "stable node" ->
                 bothReal /\ Sign(e[1].real) < 0 /\ Sign(e[2].real) < 0
          [] tag = "unstable node" ->
                 bothReal /\ Sign(e[1].real) > 0 /\ Sign(e[2].real) > 0
          [] tag = "saddle" ->
                 bothReal /\ Sign(e[1].real) * Sign(e[2].real) < 0
          [] tag = "stable focus" -> complex /\ Sign(e[1].real) < 0
          [] tag = "unstable focus" -> complex /\ Sign(e[1].real) > 0
          [] tag = "center" -> complex /\ Sign(e[1].real) = 0

ApplicableTags(roots) ==
    IF Len(roots) # 2 THEN {}
    ELSE {t \in EquilibriumTags : TagApplies(t, roots)}

\* The denominators given to the engine: the products of one factor or more.
RECURSIVE FactorLists(_)
FactorLists(n) ==
    IF n = 1 THEN {<<f>> : f \in Factors}
    ELSE FactorLists(n - 1)
             \cup {Append(l, f) : l \in FactorLists(n - 1), f \in Factors}

\* The engine analyses a denominator.  Where more than one rule of the
\* status applies it reports one of them; where no rule of the
\* classification applies, or the order is not 2, it reports no tag.
EngineAnalyze ==
    /\ engineFactors = <<>>
    /\ \E factors \in FactorLists(MaxFactors) :
        LET den == PolyProduct(factors)
            roots == Roots(factors)
        IN  /\ engineFactors' = factors
            /\ \E status \in ApplicableStatuses(roots) :
               \E tag \in IF ApplicableTags(roots) = {} THEN {"none"}
                          ELSE ApplicableTags(roots) :
                   engineReport' = [denominator |-> den,
                                    roots |-> roots,
                                    routh |-> RouthAnalysis(den),
                                    status |-> status,
                                    equilibrium |-> tag]

\* The report is handed back; the engine keeps nothing of a request.
EngineRespond ==
    /\ engineFactors # <<>>
    /\ engineFactors' = <<>>
    /\ engineReport' = [denominator |-> <<>>]

EngineInit ==
    /\ engineFactors = <<>>
    /\ engineReport = [denominator |-> <<>>]

(***************************************************************************)
(* Properties of the analysis engine                                       *)
(***************************************************************************)
Analysed == engineFactors # <<>>

\* How many roots lie in the right half plane.
RightHalfPlaneRoots ==
    Cardinality({i \in DOMAIN engineReport.roots :
                    Sign(engineReport.roots[i].real) > 0})

\* C15, as claimed: for the denominator [1,-1,2] the Routh analysis reports
\* unstable with one sign change in the first column.
C15_OneSignChange ==
    (Analysed /\ engineReport.denominator = <<1, -1, 2>>) =>
        /\ engineReport.routh.verdict = "unstable"
        /\ engineReport.routh.signChanges = 1

\* C15, amended: for the denominator [1,-1,2] row 0 is the coefficients of
\* even index, row 1 those of odd index, the first column is 1, -1, 2 and
\* the analysis reports unstable with two sign changes.
C15_TwoSignChanges ==
    (Analysed /\ engineReport.denominator = <<1, -1, 2>>) =>
        /\ engineReport.routh.rows[1] = <<Q(1), Q(2)>>
        /\ engineReport.routh.rows[2] = <<Q(-1), Q(0)>>
        /\ engineReport.routh.firstColumn = <<Q(1), Q(-1), Q(2)>>
        /\ engineReport.routh.verdict = "unstable"
        /\ engineReport.routh.signChanges = 2

\* The engine has analysed s^2 - s + 2.
C15_Witness ==
    /\ engineFactors = <<(<<1, -1, 2>>)>>
    /\ engineReport.routh.verdict = "unstable"
    /\ RightHalfPlaneRoots = 2

\* C16: of a denominator whose Routh array has no zero in the first column
\* the analysis reports stable if and only if all entries of the first
\* column have the same strict sign, and unstable otherwise; the number of
\* sign changes is the number of roots in the right half plane; and
\* [1,2,3] is reported stable, its first column 1, 2, 3.
C16_SignChangesCountRoots ==
    (Analysed /\ ~engineReport.routh.boundary) =>
        LET column == engineReport.routh.firstColumn
        IN  /\ Len(engineReport.routh.rows) = Len(engineReport.denominator)
            /\ engineReport.routh.verdict \in {"stable", "unstable"}
            /\ engineReport.routh.verdict = "stable" <=>
                   \A i \in DOMAIN column : Sign(column[i]) = Sign(column[1])
            /\ engineReport.routh.signChanges = RightHalfPlaneRoots
            /\ engineReport.denominator = <<1, 2, 3>> =>
                   /\ engineReport.routh.verdict = "stable"
                   /\ column = <<Q(1), Q(2), Q(3)>>

\* The engine has analysed a denominator of degree 4 with two roots in the
\* right half plane and no zero in the first column.
C16_Witness ==
    /\ Analysed
    /\ Len(engineReport.denominator) = 5
    /\ ~engineReport.routh.boundary
    /\ engineReport.routh.signChanges = 2
    /\ RightHalfPlaneRoots = 2

\* C17, as claimed: every system of order 2 gets exactly one of the six
\* tags, and [1,1,1] is a stable focus.
C17_ExactlyOneTag ==
    (Analysed /\ Len(engineReport.denominator) = 3) =>
        /\ Cardinality(ApplicableTags(engineReport.roots)) = 1
        /\ engineReport.equilibrium \in EquilibriumTags
        /\ engineReport.denominator = <<1, 1, 1>> =>
               engineReport.equilibrium = "stable focus"

\* C17, amended: no system of order 2 gets two tags; it gets one exactly
\* when neither eigenvalue is zero, and none when one is; [1,1,1] is a
\* stable focus.
C17_OneTagUnlessZero ==
    (Analysed /\ Len(engineReport.denominator) = 3) =>
        LET e == engineReport.roots
            zero(i) == e[i].imagSign = 0 /\ Sign(e[i].real) = 0
        IN  /\ Cardinality(ApplicableTags(e)) <= 1
            /\ Cardinality(ApplicableTags(e)) = 1 <=> ~(zero(1) \/ zero(2))
            /\ engineReport.equilibrium \in ApplicableTags(e) \cup {"none"}
            /\ engineReport.equilibrium = "none" <=> (zero(1) \/ zero(2))
            /\ engineReport.denominator = <<1, 1, 1>> =>
                   engineReport.equilibrium = "stable focus"

\* The engine has classified s^2 + s + 1.
C17_Witness ==
    /\ engineFactors = <<(<<1, 1, 1>>)>>
    /\ engineReport.equilibrium = "stable focus"
    /\ engineReport.roots[1].imagSign # 0

\* C18, as claimed: exactly one of the three rules applies to every set of
\* roots, and its status is the one reported.
C18_ExactlyOneStatus ==
    Analysed =>
        /\ Cardinality(ApplicableStatuses(engineReport.roots)) = 1
        /\ ApplicableStatuses(engineReport.roots) = {engineReport.status}

\* C18, amended: a rule applies to every set of roots and the status
\* reported is one whose rule applies; the rule of stable applies alone;
\* the rules of marginal and unstable both apply exactly to the sets with a
\* zero real part and a positive one.
C18_StatusRules ==
    Analysed =>
        LET roots == engineReport.roots
            applicable == ApplicableStatuses(roots)
        IN  /\ applicable # {}
            /\ engineReport.status \in applicable
            /\ "stable" \in applicable => applicable = {"stable"}
            /\ applicable = {"marginal", "unstable"} <=>
                   /\ \E i \in DOMAIN roots : Sign(roots[i].real) = 0
                   /\ \E i \in DOMAIN roots : Sign(roots[i].real) > 0
            /\ Cardinality(applicable) = 1 <=>
                   ~(/\ \E i \in DOMAIN roots : Sign(roots[i].real) = 0
                     /\ \E i \in DOMAIN roots : Sign(roots[i].real) > 0)

\* The engine has classified s (s - 1), to which two rules apply.
C18_Witness ==
    /\ engineFactors = <<(<<1, 0>>), (<<1, -1>>)>>
    /\ ApplicableStatuses(engineReport.roots) = {"marginal", "unstable"}
    /\ engineReport.status = "unstable"

(***************************************************************************)
(* The lag design of the engine: the refinement loop                       *)
(***************************************************************************)
\* The cap of the refinement loop.
MaxIterations == 3

\* The placements of the pole the loop may try, and what is left of the
\* phase lag at the new crossover with one of them; at most the tolerance,
\* the placement is good.
Placements == 1..2
MaxResidual == 2
Residuals == 0..MaxResidual
Tolerance == 0

UnreachableDesignTarget ==
    [name |-> "UnreachableDesignTarget",
     message |-> "Kv below the achievable floor"]
ConvergenceWarning == "ConvergenceWarning"

LeastOf(S) == CHOOSE r \in S : \A q \in S : r <= q

\* A request: a Kv below the floor of the plant fails at once; otherwise the
\* first placement is chosen and the loop begins.
LagDesign ==
    /\ lagLoop.at # "refining"
    /\ \E reachable \in BOOLEAN, pole \in Placements, residual \in Residuals :
        IF reachable
        THEN /\ lagLoop' = [at |-> "refining", iteration |-> 0,
                            estimate |-> pole, residual |-> residual,
                            best |-> pole, bestResidual |-> residual,
                            tried |-> {residual}]
             /\ lagResponse' = Null
        ELSE /\ lagLoop' = [lagLoop EXCEPT !.at = "failed"]
             /\ lagResponse' = Rejected(UnreachableDesignTarget)

\* One refinement: another placement, kept as the best if it leaves less.
LagRefine ==
    /\ lagLoop.at = "refining"
    /\ lagLoop.residual > Tolerance
    /\ lagLoop.iteration < MaxIterations
    /\ \E pole \in Placements, residual \in Residuals :
        lagLoop' = [lagLoop EXCEPT
                       !.iteration = @ + 1,
                       !.estimate = pole,
                       !.residual = residual,
                       !.best = IF residual < lagLoop.bestResidual
                                THEN pole ELSE @,
                       !.bestResidual = IF residual < @ THEN residual ELSE @,
                       !.tried = @ \cup {residual}]
    /\ UNCHANGED lagResponse

\* The loop ends, converged or at the cap, and fails with an error.
LagReturn_Fail ==
    /\ lagLoop.at = "refining"
    /\ lagLoop.residual <= Tolerance \/ lagLoop.iteration >= MaxIterations
    /\ lagLoop' = [lagLoop EXCEPT !.at = "returned"]
    /\ lagResponse' =
           IF lagLoop.residual <= Tolerance
           THEN Resolved([compensator |-> lagLoop.best, warning |-> "none"])
           ELSE Rejected(UnreachableDesignTarget)

\* The loop ends, converged or at the cap: the best placement is returned,
\* with a warning if the loop has not converged.
LagReturn ==
    /\ lagLoop.at = "refining"
    /\ lagLoop.residual <= Tolerance \/ lagLoop.iteration >= MaxIterations
    /\ lagLoop' = [lagLoop EXCEPT !.at = "returned"]
    /\ lagResponse' =
           Resolved([compensator |-> lagLoop.best,
                     warning |-> IF lagLoop.residual <= Tolerance
                                 THEN "none" ELSE ConvergenceWarning])

LagEngineInit ==
    /\ lagLoop = [at |-> "idle", iteration |-> 0, estimate |-> 1,
                  residual |-> 0, best |-> 1, bestResidual |-> 0,
                  tried |-> {}]
    /\ lagResponse = Null

\* C19: the refinement loop never goes past its cap and, once begun, ends;
\* a loop that has not converged ends at the cap and returns the best of
\* the placements tried together with a convergence warning, no error and
\* no missing result.
C19_LoopTerminates ==
    /\ [](lagLoop.iteration <= MaxIterations)
    /\ [](lagLoop.at = "refining" => lagResponse = Null)
    /\ []((lagLoop.at = "returned" /\ lagLoop.residual > Tolerance) =>
             /\ lagLoop.iteration = MaxIterations
             /\ lagLoop.bestResidual = LeastOf(lagLoop.tried)
             /\ lagResponse.state = "fulfilled"
             /\ lagResponse.value.compensator = lagLoop.best
             /\ lagResponse.value.warning = ConvergenceWarning)
    /\ (lagLoop.at = "refining") ~> (lagLoop.at = "returned")

\* The loop has run to its cap without converging and has returned.
C19_Witness ==
    /\ lagLoop.at = "returned"
    /\ lagLoop.iteration = MaxIterations
    /\ lagLoop.residual > Tolerance
    /\ lagLoop.best # lagLoop.estimate
    /\ lagResponse = Resolved([compensator |-> lagLoop.best,
                               warning |-> ConvergenceWarning])

\* C20: once no call of handleRootLocusPlot is pending, the result and the
\* error shown are those of the latest submission.
C20_LatestShown ==
    rootLocusPending = 0 =>
        /\ rootLocusResult # Null => rootLocusShownOf.result = "latest"
        /\ rootLocusError # Null => rootLocusShownOf.error = "latest"

(***************************************************************************)
(* parseComplexNumbers on its own                                          *)
(***************************************************************************)
\* The tokens typed between the commas: blank ones, reals, imaginary ones
\* with and without a number, sums, and malformed ones.
ParseTokens ==
    {<<>>, <<" ">>, <<"1">>, <<"-", "1">>, <<"1", "2">>, <<"1", ".", "5">>,
     <<" ", "1", " ">>,
     <<"2", "j">>, <<"3", "4", "j">>, <<"2", ".", "5", "j">>,
     <<"-", "2", "j">>, <<"+", "2", "j">>,
     <<"j">>, <<"+", "j">>, <<"-", "j">>,
     <<"1", "+", "2", "j">>, <<"-", "1", "-", "2", "j">>,
     <<"1", "2", "+", "3", "4", "j">>,
     <<"1", ".", "5", "-", "2", ".", "5", "j">>,
     <<"1", ".", "2", ".", "3">>, <<"1", "+">>, <<"a">>}

\* The texts of 1 to n tokens with commas between them.
RECURSIVE ParseTexts(_)
ParseTexts(n) ==
    IF n = 1 THEN ParseTokens
    ELSE ParseTexts(n - 1)
            \cup {t \o <<",">> \o k : t \in ParseTexts(n - 1), k \in ParseTokens}

\* A call of parseComplexNumbers.
ParseCall ==
    /\ parseResult = Null
    /\ \E input \in ParseTexts(MaxPieces) :
        /\ parseInput' = input
        /\ parseResult' = parseComplexNumbers(input)

\* The caller has taken what the call gave.
ParseReturn ==
    /\ parseResult # Null
    /\ parseInput' = <<>>
    /\ parseResult' = Null

ParsingInit ==
    /\ parseInput = <<>>
    /\ parseResult = Null

\* A decimal numeral: one or more digits, then perhaps a point and one or
\* more digits; and one with perhaps a sign before it.
IsUnsignedNumeral(s) ==
    LET whole == DigitRun(s)
        rest == SubSeq(s, whole + 1, Len(s))
    IN  /\ whole >= 1
        /\ \/ rest = <<>>
           \/ /\ Len(rest) >= 2
              /\ Head(rest) = "."
              /\ DigitRun(Tail(rest)) = Len(rest) - 1

IsNumeral(s) ==
    \/ IsUnsignedNumeral(s)
    \/ s # <<>> /\ Head(s) \in {"+", "-"} /\ IsUnsignedNumeral(Tail(s))

WithoutLast(s) == SubSeq(s, 1, Len(s) - 1)

\* The tokens of the text parsed, trimmed.
ParsedTokens ==
    LET pieces == split(parseInput, ",")
    IN  [i \in DOMAIN pieces |-> trim(pieces[i])]

\* C21: a token bj, b a decimal numeral, gives {real: 0, imag: b}, and the
\* tokens j, +j and -j give the imaginary parts 1, 1 and -1.
C21_PureImaginary ==
    (parseResult # Null /\ Len(ParsedTokens) = 1) =>
        LET token == ParsedTokens[1]
            gives(imag) ==
                parseResult = Resolved(<<Point(Whole(0), imag)>>)
        IN  /\ (token # <<>> /\ token[Len(token)] = "j"
                   /\ IsNumeral(WithoutLast(token))) =>
                   gives(Number(WithoutLast(token)))
            /\ token \in {<<"j">>, <<"+", "j">>} => gives(Whole(1))
            /\ token = <<"-", "j">> => gives(Whole(-1))

\* The imaginary form bj, the b perhaps signed or left out, and the forms a,
\* bj and a+bj, a-bj of a token.
IsImaginaryForm(s) ==
    /\ s # <<>>
    /\ s[Len(s)] = "j"
    /\ WithoutLast(s) \in {<<>>, <<"+">>, <<"-">>} \/ IsNumeral(WithoutLast(s))

IsWellFormedToken(token) ==
    \/ IsNumeral(token)
    \/ IsImaginaryForm(token)
    \/ \E i \in 2..Len(token) :
          /\ token[i] \in {"+", "-"}
          /\ IsNumeral(SubSeq(token, 1, i - 1))
          /\ IsImaginaryForm(SubSeq(token, i, Len(token)))

\* C22: a text with an empty or malformed token makes parseComplexNumbers
\* throw an Error, and a list it returns has one point for each token.
C22_OnePointPerToken ==
    (parseResult # Null /\ trim(parseInput) # <<>>) =>
        /\ (\E i \in DOMAIN ParsedTokens : ~IsWellFormedToken(ParsedTokens[i]))
               => /\ parseResult.state = "rejected"
                  /\ parseResult.reason.name = "Error"
        /\ parseResult.state = "fulfilled" =>
               Len(parseResult.value) = Len(ParsedTokens)

\* The point a token of one of the forms a, a+bj and a-bj stands for, a
\* perhaps with a minus sign and b unsigned: NaN for a token of another
\* form.
DocumentedPoint(token) ==
    LET real(a) == IsUnsignedNumeral(a)
                      \/ (a # <<>> /\ Head(a) = "-" /\ IsUnsignedNumeral(Tail(a)))
        cuts == {i \in 2..(Len(token) - 2) :
                    /\ token[i] \in {"+", "-"}
                    /\ token[Len(token)] = "j"
                    /\ real(SubSeq(token, 1, i - 1))
                    /\ IsUnsignedNumeral(SubSeq(token, i + 1, Len(token) - 1))}
    IN  IF real(token) THEN Point(Number(token), Whole(0))
        ELSE IF cuts # {}
        THEN LET i == CHOOSE i \in cuts : TRUE
                 b == Number(SubSeq(token, i + 1, Len(token) - 1))
             IN  Point(Number(SubSeq(token, 1, i - 1)),
                       IF token[i] = "+" THEN b ELSE Num(0 - b.m, b.e))
        ELSE NaN

\* C23: a blank text parses to the empty list, and a text all of whose
\* tokens have one of the forms a, a+bj, a-bj parses to the points of its
\* tokens, in their order: {a, 0}, {a, b}, {a, -b}.
C23_RoundTrip ==
    parseResult # Null =>
        /\ trim(parseInput) = <<>> => parseResult = Resolved(<<>>)
        /\ (\A i \in DOMAIN ParsedTokens :
               DocumentedPoint(ParsedTokens[i]) # NaN) =>
               parseResult =
                   Resolved([i \in DOMAIN ParsedTokens |->
                                DocumentedPoint(ParsedTokens[i])])

\* A list of two tokens of different documented forms has been parsed.
C23_Witness ==
    /\ parseResult # Null
    /\ Len(ParsedTokens) = 2
    /\ ParsedTokens[1] = <<"1", ".", "5", "-", "2", ".", "5", "j">>
    /\ ParsedTokens[2] = <<"-", "1">>
    /\ parseResult = Resolved(<<Point(Num(15, 1), Num(-25, 1)),
                                Point(Whole(-1), Whole(0))>>)

\* C24: the gain of the request the frequency-domain form has sent is the
\* number the form read in its field of the gain.
C24_GainSent ==
    (mode = "frequencyDomain" /\ frequencyDomainRequests # <<>>) =>
        /\ ~isNaN(parseFloat(gain))
        /\ Get(JSONparse(frequencyDomainRequests[1].body), "gain")
               = parseFloat(gain)

\* The result and the error HomePage keeps of each of its five analyses.
HomePageStored ==
    {<<controlAnalysisResult, controlAnalysisError>>,
     <<inverseAnalysisResult, inverseAnalysisError>>,
     <<symbolicStabilityResult, symbolicStabilityError>>,
     <<rootLocusResult, rootLocusError>>,
     <<frequencyDomainResult, frequencyDomainError>>}

\* C25: HomePage never keeps both a result and an error of one analysis.
C25_NotBoth ==
    \A stored \in HomePageStored : stored[1] = Null \/ stored[2] = Null

\* C26: in the lead, lag and phase-portrait forms loading is true exactly
\* while a request of the form is pending: a submission that sends a request
\* sets it, a submission whose validation throws leaves it false, the
\* settling of the request resets it whether the request succeeded or
\* failed, and it never stays true for ever.
C26_LoadingWhileProcessed ==
    /\ [](loading <=> designPending > 0)
    /\ [](loading => mode \in DesignModes /\ designRequests # <<>>)
    /\ [][(mode' = mode /\ designPending' = designPending + 1) => loading']_vars
    /\ [][(mode' = mode /\ designPending' = designPending
              /\ designRequests' = <<>> /\ error' # Null) => ~loading']_vars
    /\ [][(mode' = mode /\ designPending' = designPending - 1) => ~loading']_vars
    /\ loading ~> ~loading

\* A request of the phase-portrait form has failed and loading is false
\* again.
C26_Witness ==
    /\ mode = "phasePortrait"
    /\ designRequests # <<>>
    /\ designPending = 0
    /\ error = Str("Failed to fetch")
    /\ ~loading

\* The five analyses of HomePage: the mode that shows each, the result and
\* error kept of it, and the number of its calls that are pending.
HomePageParts ==
    {"controlSystem", "inverseAnalysis", "symbolicStability", "rootLocus",
     "frequencyDomain"}

StoredOf(part) ==
    CASE part = "controlSystem" ->
             <<controlAnalysisResult, controlAnalysisError>>
      [] part = "inverseAnalysis" ->
             <<inverseAnalysisResult, inverseAnalysisError>>
      [] part = "symbolicStability" ->
             <<symbolicStabilityResult, symbolicStabilityError>>
      [] part = "rootLocus" -> <<rootLocusResult, rootLocusError>>
      [] part = "frequencyDomain" ->
             <<frequencyDomainResult, frequencyDomainError>>

PendingOf(part) ==
    CASE part = "controlSystem" -> controlPending
      [] part = "inverseAnalysis" -> Len(inverseInFlight)
      [] part = "symbolicStability" -> symbolicPending
      [] part = "rootLocus" -> rootLocusPending
      [] part = "frequencyDomain" -> frequencyDomainPending

\* C27: a switch of the mode leaves the results and errors HomePage keeps,
\* and its pending calls, as they are; what is kept of an analysis that is
\* not shown changes only when a response to a call of it arrives, and an
\* arriving response changes what is kept of no other analysis.
C27_ModeFrame ==
    /\ [][mode' # mode =>
             \A part \in HomePageParts :
                 /\ StoredOf(part)' = StoredOf(part)
                 /\ PendingOf(part)' = PendingOf(part)]_vars
    /\ [][\A part \in HomePageParts :
             (mode # part /\ StoredOf(part)' # StoredOf(part)) =>
                 /\ mode' = mode
                 /\ PendingOf(part)' = PendingOf(part) - 1]_vars
    /\ [][\A part \in HomePageParts :
             PendingOf(part)' < PendingOf(part) =>
                 \A other \in HomePageParts \ {part} :
                     StoredOf(other)' = StoredOf(other)]_vars

\* The frequency-domain form is shown and has a call pending; a call of the
\* root-locus analysis is pending too, and a result of it is kept.
C27_Witness ==
    /\ mode = "frequencyDomain"
    /\ frequencyDomainPending = 1
    /\ frequencyDomainResult = Null
    /\ rootLocusPending = 1
    /\ rootLocusResult # Null
    /\ rootLocusError = Null

(***************************************************************************)
(* The traces of the plots (FrequencyDomainResult, LagCompensation,        *)
(* LeadCompensation)                                                       *)
(***************************************************************************)
\* How many samples an array of a response has.
MaxSamples == 3

\* filterNoneValues of FrequencyDomainResult: (arr || []).filter(val =>
\* val !== null)
filterNoneValues_strict(arr) ==
    SelectSeq(OrElse(arr, Arr(<<>>)).items, LAMBDA val : val # Null)

\* filterNoneValues of LagCompensation and LeadCompensation: (arr ||
\* []).filter(val => val != null)
filterNoneValues(arr) ==
    SelectSeq(OrElse(arr, Arr(<<>>)).items,
              LAMBDA val : val.t \notin {"null", "undefined"})

\* The arrays of n samples a response holds for a trace: the sample of index
\* i has the x value i and the y value 10 + i, and either may be null.
SampleArrays(n) ==
    {[x |-> Arr([i \in 1..n |-> IF i \in xs THEN Null ELSE Whole(i)]),
      y |-> Arr([i \in 1..n |-> IF i \in ys THEN Null ELSE Whole(10 + i)])] :
        xs \in SUBSET (1..n), ys \in SUBSET (1..n)}

Samples ==
    UNION {SampleArrays(n) : n \in 0..MaxSamples}

\* A view draws a trace: { x: filterNoneValues(...), y: filterNoneValues(...) }
PlotTrace ==
    \E view \in {"FrequencyDomainResult", "LagCompensation"},
       samples \in Samples :
        /\ traceSamples' = [view |-> view, x |-> samples.x, y |-> samples.y]
        /\ trace' =
               IF view = "FrequencyDomainResult"
               THEN [x |-> filterNoneValues_strict(samples.x),
                     y |-> filterNoneValues_strict(samples.y)]
               ELSE [x |-> filterNoneValues(samples.x),
                     y |-> filterNoneValues(samples.y)]

TraceInit ==
    /\ traceSamples = [view |-> "none", x |-> Arr(<<>>), y |-> Arr(<<>>)]
    /\ trace = [x |-> <<>>, y |-> <<>>]

\* C28: the x and the y of a trace have the same length, and the i-th x and
\* the i-th y are of the same sample of the response.
C28_PairsKept ==
    /\ Len(trace.x) = Len(trace.y)
    /\ \A i \in DOMAIN trace.x :
           i \in DOMAIN trace.y => trace.y[i].m = trace.x[i].m + 10

(***************************************************************************)
(* RootLocusResult: the range of an axis                                   *)
(***************************************************************************)
\* The numerator of the decimal v over 10^e, for e at least v.e, and the
\* order of two decimals.
Scaled(v, e) == v.m * Pow10(e - v.e)

LessEq(a, b) ==
    LET e == IF a.e > b.e THEN a.e ELSE b.e
    IN  Scaled(a, e) <= Scaled(b, e)

MathMax(a, b) == IF LessEq(a, b) THEN b ELSE a
MathAbs(v) == Num(IF v.m < 0 THEN 0 - v.m ELSE v.m, v.e)
Negated(v) == Num(0 - v.m, v.e)

\* Math.min(...data) and Math.max(...data) of a list that is not empty.
MathMinOf(data) ==
    CHOOSE v \in {data[i] : i \in DOMAIN data} :
        \A i \in DOMAIN data : LessEq(v, data[i])
MathMaxOf(data) ==
    CHOOSE v \in {data[i] : i \in DOMAIN data} :
        \A i \in DOMAIN data : LessEq(data[i], v)

\* getRange(data)
getRange(data) ==
    IF Len(data) = 0 THEN <<Num(-5, 1), Num(5, 1)>>
    ELSE LET minVal == MathMinOf(data)
             maxVal == MathMaxOf(data)
             maxAbsValue == MathMax(MathAbs(minVal), MathAbs(maxVal))
             padded == MathMax(Num(maxAbsValue.m * 12, maxAbsValue.e + 1),
                               Whole(5))
             scaledDown == Num(padded.m, padded.e + 1)
             rangeValue == MathMax(scaledDown, Num(5, 1))
         IN  <<Negated(rangeValue), rangeValue>>

\* The coordinates of a root locus: 0, 0.3, -2, -4.1, 50.
Coordinate == {Whole(0), Num(3, 1), Whole(-2), Num(-41, 1), Whole(50)}

RECURSIVE CoordinateLists(_)
CoordinateLists(n) ==
    IF n = 0 THEN {<<>>}
    ELSE CoordinateLists(n - 1)
            \cup {Append(l, c) : l \in CoordinateLists(n - 1), c \in Coordinate}

\* The view computes the range of an axis from the coordinates of a result.
GetRange ==
    \E data \in CoordinateLists(MaxSamples) :
        /\ rangeData' = data
        /\ range' = getRange(data)

RangeInit ==
    /\ rangeData = <<>>
    /\ range = getRange(<<>>)

\* C29: the range is [-r, r] with r at least 0.5, and every coordinate it
\* was computed from lies in it.
C29_RangeContainsData ==
    /\ range[1] = Negated(range[2])
    /\ LessEq(Num(5, 1), range[2])
    /\ \A i \in DOMAIN rangeData :
           LessEq(range[1], rangeData[i]) /\ LessEq(rangeData[i], range[2])

(***************************************************************************)
(* The functions of the client's API on a response                         *)
(***************************************************************************)
ClientFunctions ==
    {"apiRequest", "analyzeTransferFunctionAPI",
     "inverseAnalyzeTimeDomainMetricsAPI", "analyzeSymbolicStabilityAPI",
     "plotRootLocusAPI", "analyzeFrequencyDomainAPI"}

\* How the function settles once its fetch has settled with `fetched`.
ClientSettled(name, fetched) ==
    CASE name = "apiRequest" -> apiRequest_settle(fetched)
      [] name = "analyzeTransferFunctionAPI" ->
             analyzeTransferFunctionAPI_settle(fetched)
      [] name = "inverseAnalyzeTimeDomainMetricsAPI" ->
             inverseAnalyzeTimeDomainMetricsAPI_settle(fetched)
      [] name = "analyzeSymbolicStabilityAPI" ->
             analyzeSymbolicStabilityAPI_settle(fetched)
      [] name = "plotRootLocusAPI" -> plotRootLocusAPI_settle(fetched)
      [] name = "analyzeFrequencyDomainAPI" ->
             analyzeFrequencyDomainAPI_settle(fetched)

\* The bodies of the server's responses: a result, an error with a detail,
\* with an empty detail, with none, and a body that is not JSON (the page of
\* a proxy, an empty body).
ClientBodies ==
    {JSONstringify(Obj(<<Prop("message", Str("ok"))>>)),
     JSONstringify(Obj(<<Prop("detail", Str("System is unstable"))>>)),
     JSONstringify(Obj(<<Prop("detail", Str("No poles"))>>)),
     JSONstringify(Obj(<<Prop("detail", Str(""))>>)),
     JSONstringify(Obj(<<>>)),
     NotJSON}

ClientStatuses == {200, 400, 404, 422, 500}

ClientFetched ==
    {Resolved([ok |-> status = 200, status |-> status, body |-> body]) :
        status \in ClientStatuses, body \in ClientBodies}
    \cup {Rejected(FailedToFetch)}

\* A call of a function settles.
ClientSettle ==
    \E name \in ClientFunctions, fetched \in ClientFetched :
        /\ clientCall' = [name |-> name, fetched |-> fetched]
        /\ clientOutcome' = ClientSettled(name, fetched)

ClientInit ==
    /\ clientCall = [name |-> "none", fetched |-> Rejected(FailedToFetch)]
    /\ clientOutcome = Null

\* The fixed messages a function falls back on.
FallbackMessages(name, status) ==
    CASE name = "apiRequest" ->
             {"An unknown error occurred.",
              "HTTP error! status: " \o ToString(status)}
      [] name = "analyzeTransferFunctionAPI" -> {AnalysisFailedMessage}
      [] name = "inverseAnalyzeTimeDomainMetricsAPI" -> {InverseFailedMessage}
      [] name = "analyzeSymbolicStabilityAPI" -> {SymbolicFailedMessage}
      [] name = "plotRootLocusAPI" -> {RootLocusFailedMessage}
      [] name = "analyzeFrequencyDomainAPI" -> {FrequencyFailedMessage}

\* C30: on a response that is not OK every function rejects with an Error
\* whose message is the detail of the body, or one of its fallback messages
\* when the body has no detail or is not JSON.
C30_RejectsWithMessage ==
    (clientCall.name # "none" /\ clientCall.fetched.state = "fulfilled"
        /\ ~clientCall.fetched.value.ok) =>
        LET response == clientCall.fetched.value
            detail == IF response.body = NotJSON THEN Undefined
                      ELSE Detail(JSONparse(response.body))
        IN  /\ clientOutcome.state = "rejected"
            /\ clientOutcome.reason.name = "Error"
            /\ clientOutcome.reason.message \in
                   IF Truthy(detail) THEN {detail.s}
                   ELSE FallbackMessages(clientCall.name, response.status)

(***************************************************************************)
(* Specifications                                                          *)
(***************************************************************************)
Init ==
    /\ HomeInit
    /\ InverseInit
    /\ SymbolicInit
    /\ DesignInit
    /\ ControlInit
    /\ FaInit
    /\ RootLocusInit
    /\ FrequencyDomainInit
    /\ ApiInit
    /\ EngineInit
    /\ LagEngineInit
    /\ ParsingInit
    /\ TraceInit
    /\ RangeInit
    /\ ClientInit

\* What the steps of one part of the client leave alone: the mode and the
\* variables of the other parts.
NotInverse ==
    <<mode, symbolicVars, designVars, controlVars, faVars, rootLocusVars,
      frequencyDomainVars, apiVars, engineVars, lagVars, parsingVars,
      traceVars, rangeVars, clientVars>>

NotSymbolic ==
    <<mode, inverseVars, designVars, controlVars, faVars, rootLocusVars,
      frequencyDomainVars, apiVars, engineVars, lagVars, parsingVars,
      traceVars, rangeVars, clientVars>>

NotDesign ==
    <<mode, inverseVars, symbolicVars, controlVars, faVars, rootLocusVars,
      frequencyDomainVars, apiVars, engineVars, lagVars, parsingVars,
      traceVars, rangeVars, clientVars>>

NotControl ==
    <<mode, inverseVars, symbolicVars, designVars, faVars, rootLocusVars,
      frequencyDomainVars, apiVars, engineVars, lagVars, parsingVars,
      traceVars, rangeVars, clientVars>>

NotFa ==
    <<mode, inverseVars, symbolicVars, designVars, controlVars,
      rootLocusVars, frequencyDomainVars, apiVars, engineVars, lagVars,
      parsingVars, traceVars, rangeVars, clientVars>>

NotRootLocus ==
    <<mode, inverseVars, symbolicVars, designVars, controlVars, faVars,
      frequencyDomainVars, apiVars, engineVars, lagVars, parsingVars,
      traceVars, rangeVars, clientVars>>

NotFrequencyDomain ==
    <<mode, inverseVars, symbolicVars, designVars, controlVars, faVars,
      rootLocusVars, apiVars, engineVars, lagVars, parsingVars, traceVars,
      rangeVars, clientVars>>

NotApi ==
    <<mode, inverseVars, symbolicVars, designVars, controlVars, faVars,
      rootLocusVars, frequencyDomainVars, engineVars, lagVars, parsingVars,
      traceVars, rangeVars, clientVars>>

NotEngine ==
    <<mode, inverseVars, symbolicVars, designVars, controlVars, faVars,
      rootLocusVars, frequencyDomainVars, apiVars, lagVars, parsingVars,
      traceVars, rangeVars, clientVars>>

NotLagEngine ==
    <<mode, inverseVars, symbolicVars, designVars, controlVars, faVars,
      rootLocusVars, frequencyDomainVars, apiVars, engineVars, parsingVars,
      traceVars, rangeVars, clientVars>>

NotParsing ==
    <<mode, inverseVars, symbolicVars, designVars, controlVars, faVars,
      rootLocusVars, frequencyDomainVars, apiVars, engineVars, lagVars,
      traceVars, rangeVars, clientVars>>

NotTrace ==
    <<mode, inverseVars, symbolicVars, designVars, controlVars, faVars,
      rootLocusVars, frequencyDomainVars, apiVars, engineVars, lagVars,
      parsingVars, rangeVars, clientVars>>

NotRange ==
    <<mode, inverseVars, symbolicVars, designVars, controlVars, faVars,
      rootLocusVars, frequencyDomainVars, apiVars, engineVars, lagVars,
      parsingVars, traceVars, clientVars>>

NotClient ==
    <<mode, inverseVars, symbolicVars, designVars, controlVars, faVars,
      rootLocusVars, frequencyDomainVars, apiVars, engineVars, lagVars,
      parsingVars, traceVars, rangeVars>>

InverseNext ==
    \/ InverseChange /\ UNCHANGED NotInverse
    \/ InverseClick /\ UNCHANGED NotInverse
    \/ InverseSettle /\ UNCHANGED NotInverse
    \/ InverseSetMode

SymbolicNext ==
    \/ SymbolicSubmit /\ UNCHANGED NotSymbolic
    \/ SymbolicSettle /\ UNCHANGED NotSymbolic
    \/ SymbolicSetMode

DesignNext ==
    \/ LagHandleDesign /\ UNCHANGED NotDesign
    \/ LagSettle /\ UNCHANGED NotDesign
    \/ LeadHandleDesign /\ UNCHANGED NotDesign
    \/ LeadSettle /\ UNCHANGED NotDesign
    \/ PhaseHandleAnalyze /\ UNCHANGED NotDesign
    \/ PhaseSettle /\ UNCHANGED NotDesign
    \/ DesignSetMode

ControlNext ==
    \/ ControlSubmit /\ UNCHANGED NotControl
    \/ ControlSettle /\ UNCHANGED NotControl
    \/ ControlSetMode

FaNext ==
    \/ FaHandleAnalyze /\ UNCHANGED NotFa
    \/ FaSettle /\ UNCHANGED NotFa

ApiNext ==
    \/ ApiCall /\ UNCHANGED NotApi

EngineNext ==
    \/ EngineAnalyze /\ UNCHANGED NotEngine
    \/ EngineRespond /\ UNCHANGED NotEngine

LagEngineNext ==
    \/ LagDesign /\ UNCHANGED NotLagEngine
    \/ LagRefine /\ UNCHANGED NotLagEngine
    \/ LagReturn /\ UNCHANGED NotLagEngine

ParsingNext ==
    \/ ParseCall /\ UNCHANGED NotParsing
    \/ ParseReturn /\ UNCHANGED NotParsing

TraceNext ==
    \/ PlotTrace /\ UNCHANGED NotTrace

RangeNext ==
    \/ GetRange /\ UNCHANGED NotRange

ClientNext ==
    \/ ClientSettle /\ UNCHANGED NotClient

PolesNext ==
    \/ RootLocusSubmit /\ UNCHANGED NotRootLocus
    \/ RootLocusSettle /\ UNCHANGED NotRootLocus
    \/ FrequencyDomainSubmit /\ UNCHANGED NotFrequencyDomain
    \/ FrequencyDomainSettle /\ UNCHANGED NotFrequencyDomain
    \/ PolesSetMode

\* The inverse analysis: its form, HomePage's handler and the fetch wrapper.
SpecInverse == Init /\ [][InverseNext]_vars

\* The symbolic stability analysis: its form, HomePage's handler and the
\* fetch wrapper.
SpecSymbolic == Init /\ [][SymbolicNext]_vars

\* The design components (lag, lead, phase portrait) under HomePage's mode
\* selector, with apiRequest.
SpecDesign == Init /\ [][DesignNext]_vars

\* The forward analysis: its form, HomePage's handler and the fetch wrapper.
SpecControl == Init /\ [][ControlNext]_vars

\* FrequencyAnalysis with its own fetch wrapper.
SpecFrequencyAnalysis == Init /\ [][FaNext]_vars

\* The functions of services/api.js, each called with an argument.
SpecApi == Init /\ [][ApiNext]_vars

\* The analysis engine on denominators given by their factors: roots, Routh
\* array, stability status and classification of the equilibrium.
SpecEngine == Init /\ [][EngineNext]_vars

\* The lag design of the engine: requests and the refinement loop.
SpecLagEngine == Init /\ [][LagEngineNext]_vars

\* parseComplexNumbers on texts of up to MaxPieces tokens.
SpecParsing == Init /\ [][ParsingNext]_vars

\* The traces of the result views on arrays with null samples.
SpecTrace == Init /\ [][TraceNext]_vars

\* getRange of RootLocusResult on lists of coordinates.
SpecRange == Init /\ [][RangeNext]_vars

\* The six functions of the client's API on the responses of the server.
SpecClient == Init /\ [][ClientNext]_vars

\* The root locus and the frequency-domain analysis: their forms, HomePage's
\* handlers and the fetch wrappers.
SpecPoles == Init /\ [][PolesNext]_vars

\* The forward analysis and the design components together: a handler of
\* HomePage with its fetch wrapper, and the components that call apiRequest.
RequestsNext ==
    \/ ControlNext
    \/ DesignNext

SpecRequests == Init /\ [][RequestsNext]_vars

\* The lag design with the loop running on: the engine is a sequential
\* program that blocks on nothing, so a step of the loop that can be taken
\* is taken, and so is the return.
SpecLagEngineFair ==
    /\ Init
    /\ [][LagEngineNext]_vars
    /\ WF_vars(LagRefine /\ UNCHANGED NotLagEngine)
    /\ WF_vars(LagReturn /\ UNCHANGED NotLagEngine)

\* The design components with every request settling: the browser settles
\* each fetch, with a response or with a network error, and the handler
\* that awaits it resumes.
SpecDesignFair ==
    /\ Init
    /\ [][DesignNext]_vars
    /\ WF_vars(LagSettle /\ UNCHANGED NotDesign)
    /\ WF_vars(LeadSettle /\ UNCHANGED NotDesign)
    /\ WF_vars(PhaseSettle /\ UNCHANGED NotDesign)

====
